---------------------------- MODULE Spec2Model ----------------------------
(***************************************************************************)
(* Model of the JSON-file-backed tracker tools of the job application      *)
(* advisor (job_application_agent/tools).  Every tool is one atomic        *)
(* action: it validates its arguments, loads one collection file, mutates  *)
(* the loaded list, rewrites the file and returns a text.                  *)
(*                                                                         *)
(* Strings are TLA+ strings; strip() and lower() work character by         *)
(* character.  A returned text is modelled by the literal part of its      *)
(* format string (msg) and the values interpolated into it.                *)
(* datetime.now() is the variable now, counted in ticks; a stamp           *)
(* "%Y-%m-%d %H:%M" is the minute index of a tick and a date "%Y-%m-%d"    *)
(* is its day index.                                                       *)
(***************************************************************************)
EXTENDS Integers, Sequences, FiniteSets, TLC

VARIABLES
    fs,             \* the data directory: file name -> file content
    now,            \* the wall clock (datetime.now()), in ticks
    ret,            \* what the last tool call returned (or that it raised)
    codec,          \* one document on its way through json.dump and json.load
    calls           \* the tool calls in flight: caller -> position and locals

vars == <<fs, now, ret, codec, calls>>

(***************************************************************************)
(* Bounds of the model.                                                    *)
(***************************************************************************)
MaxRecords == 2         \* records stored at most, over all collections
MaxNow == 2             \* the clock stops ticking here
TicksPerMinute == 2     \* clock resolution below the minute
MinutesPerDay == 2      \* a day, scaled down

\* Numeric arguments are counted in thousandths: 1500 is 1.5.
Milli == 10 * 10 * 10

(***************************************************************************)
(* str.strip() and str.lower()                                             *)
(***************************************************************************)
IsSpace(c) == c \in {" ", "\t", "\n"}

RECURSIVE LStrip(_)
LStrip(s) ==
    IF Len(s) > 0 /\ IsSpace(SubSeq(s, 1, 1))
    THEN LStrip(SubSeq(s, 2, Len(s)))
    ELSE s

RECURSIVE RStrip(_)
RStrip(s) ==
    IF Len(s) > 0 /\ IsSpace(SubSeq(s, Len(s), Len(s)))
    THEN RStrip(SubSeq(s, 1, Len(s) - 1))
    ELSE s

Strip(s) == RStrip(LStrip(s))

UpperAlpha == "ABCDEFGHIJKLMNOPQRSTUVWXYZ"
LowerAlpha == "abcdefghijklmnopqrstuvwxyz"

LowerCh(c) ==
    IF \E i \in 1..Len(UpperAlpha) : SubSeq(UpperAlpha, i, i) = c
    THEN LET i == CHOOSE j \in 1..Len(UpperAlpha) : SubSeq(UpperAlpha, j, j) = c
         IN  SubSeq(LowerAlpha, i, i)
    ELSE c

Lower_same(s) == s

RECURSIVE Lower(_)
Lower(s) ==
    IF Len(s) = 0 THEN ""
    ELSE LowerCh(SubSeq(s, 1, 1)) \o Lower(SubSeq(s, 2, Len(s)))

\* Python's truth value of a str: the empty string is false.
Truthy(s) == Len(s) > 0

\* `needle in haystack` on str
Contains(haystack, needle) ==
    \E i \in 1..(Len(haystack) - Len(needle) + 1) :
        SubSeq(haystack, i, i + Len(needle) - 1) = needle

InList_any(x, lst) == TRUE

\* `x in lst` on a list
InList(x, lst) == \E i \in 1..Len(lst) : lst[i] = x

(***************************************************************************)
(* datetime.now().strftime(...)                                            *)
(***************************************************************************)
TicksPerDay == TicksPerMinute * MinutesPerDay
StampOf(t) == t \div TicksPerMinute         \* "%Y-%m-%d %H:%M"
DateOf(t) == t \div TicksPerDay             \* "%Y-%m-%d"


(***************************************************************************)
(* Numeric arguments.  type is the Python type of the argument ("int",     *)
(* "float", or "str" for an argument that is no number), val its value in  *)
(* thousandths.                                                            *)
(***************************************************************************)
IntArg(n) == [type |-> "int", val |-> n * Milli]
FloatArg(milli) == [type |-> "float", val |-> milli]
StrArg == [type |-> "str", val |-> 0]

\* isinstance(x, (int, float))
IsNumber(x) == x.type \in {"int", "float"}

\* int(x) of a number x >= 1: truncation
IntOf(x) == x.val \div Milli

\* not isinstance(x, (int, float)) or x < 1
BadId(x) == ~IsNumber(x) \/ x.val < Milli

(***************************************************************************)
(* A collection file.  kind is                                             *)
(*   "absent"      os.path.exists is false                                 *)
(*   "json"        the text json.dump wrote for data                       *)
(*   "malformed"   text json.load rejects with JSONDecodeError (a file     *)
(*                 cut short, an empty file)                               *)
(*   "undecodable" bytes that are no UTF-8 text (a file cut inside a       *)
(*                 multi-byte character): reading it raises                *)
(*                 UnicodeDecodeError, a ValueError that is neither a      *)
(*                 JSONDecodeError nor an IOError                          *)
(***************************************************************************)
Absent == [kind |-> "absent", data |-> <<>>]
Malformed == [kind |-> "malformed", data |-> <<>>]
Undecodable == [kind |-> "undecodable", data |-> <<>>]
JsonFile(data) == [kind |-> "json", data |-> data]

TRACKER_FILE == "applications.json"
TODOS_FILE == "todos.json"
GOALS_FILE == "goals.json"
EXPENSES_FILE == "expenses.json"
INCOME_FILE == "income.json"
BUDGET_FILE == "budget.json"
SAVINGS_FILE == "savings.json"
MOOD_FILE == "mood_log.json"
JOURNAL_FILE == "journal.json"
HABITS_FILE == "habits.json"

\* The files that hold a list of records.
ListFiles ==
    {TRACKER_FILE, TODOS_FILE, GOALS_FILE, EXPENSES_FILE, INCOME_FILE,
     SAVINGS_FILE, MOOD_FILE, JOURNAL_FILE}
\* budget.json holds one object, habits.json the list of habits.
FileNames == ListFiles \cup {BUDGET_FILE, HABITS_FILE}

\* with open(path, "r", encoding="utf-8") as f: json.load(f)
\* raises what `except (json.JSONDecodeError, IOError)` does not catch.
LoadRaises(f) == f.kind = "undecodable"

\* _load_applications / _load_json: the list the file holds, else []
LoadList(f) == IF f.kind = "json" THEN f.data ELSE <<>>

\* _save_applications / _save_json: the whole file is rewritten
SaveFile(path, data) == fs' = [fs EXCEPT ![path] = JsonFile(data)]

Appended_only(list, record) == <<record>>

\* apps.append(record)
Appended(list, record) == Append(list, record)

NextId_len(list) == Len(list)
NextId_min(list) == IF Len(list) = 0 THEN 1 ELSE Len(list)

\* len(list) + 1
NextId(list) == Len(list) + 1

\* The model stores no more than MaxRecords records.
Stored ==
    Len(LoadList(fs[TRACKER_FILE])) + Len(LoadList(fs[TODOS_FILE]))
    + Len(LoadList(fs[GOALS_FILE])) + Len(LoadList(fs[EXPENSES_FILE]))
    + Len(LoadList(fs[INCOME_FILE])) + Len(LoadList(fs[SAVINGS_FILE]))
    + Len(LoadList(fs[MOOD_FILE])) + Len(LoadList(fs[JOURNAL_FILE]))

Room == Stored < MaxRecords

(***************************************************************************)
(* What a tool call returns: the literal part of the text (msg) and the    *)
(* values formatted into it (v); kind "raised" is an exception that        *)
(* escapes the tool.                                                       *)
(***************************************************************************)
NoRet == [op |-> "", kind |-> "none", msg |-> "", v |-> <<>>]
Raised(op, exception) == [op |-> op, kind |-> "raised", msg |-> exception, v |-> <<>>]
Text(op, msg, v) == [op |-> op, kind |-> "text", msg |-> msg, v |-> v]

Returns(r) == /\ ret' = r
              /\ UNCHANGED <<fs, now, codec, calls>>

(***************************************************************************)
(* application_tracker.py                                                  *)
(***************************************************************************)
VALID_STATUSES ==
    <<"applied", "screening", "interview", "technical", "offer", "rejected", "withdrawn">>

IsBlank_raw(s) == ~Truthy(s)

\* not s or not s.strip()
IsBlank(s) == ~Truthy(s) \/ ~Truthy(Strip(s))

ValidStatus_any(status) == Truthy(status)

\* status in VALID_STATUSES
ValidStatus(status) == InList(status, VALID_STATUSES)

add_application(company, role, status, notes) ==
    LET op == "add_application"
        company1 == Strip(company)
        role1 == Strip(role)
        status1 == IF Truthy(status) THEN Lower(Strip(status)) ELSE "applied"
        notes1 == IF Truthy(notes) THEN Strip(notes) ELSE ""
        apps == LoadList(fs[TRACKER_FILE])
        application == [id |-> NextId(apps),
                        company |-> company1,
                        role |-> role1,
                        status |-> status1,
                        notes |-> notes1,
                        applied_date |-> DateOf(now),
                        last_updated |-> StampOf(now)]
    IN
    IF IsBlank(company)
    THEN Returns(Text(op, "Error: Company name is required.", <<>>))
    ELSE IF IsBlank(role)
    THEN Returns(Text(op, "Error: Role/position is required.", <<>>))
    ELSE IF ~ValidStatus(status1)
    THEN Returns(Text(op, "Error: Invalid status '{status}'. Must be one of: {VALID_STATUSES}",
                      [status |-> status1]))
    ELSE IF LoadRaises(fs[TRACKER_FILE])
    THEN Returns(Raised(op, "UnicodeDecodeError"))
    ELSE /\ Room
         /\ SaveFile(TRACKER_FILE, Appended(apps, application))
         /\ ret' = Text(op, "Application #{id} added!",
                        [id |-> application.id, company |-> company1, role |-> role1,
                         status |-> status1, date |-> application.applied_date])
         /\ UNCHANGED <<now, codec, calls>>

\* The first index of the record with this id, 0 when there is none:
\* `for app in apps: if app["id"] == application_id`
FindId(list, id) ==
    IF \E i \in 1..Len(list) : list[i].id = id
    THEN CHOOSE i \in 1..Len(list) :
            /\ list[i].id = id
            /\ \A j \in 1..(i - 1) : list[j].id # id
    ELSE 0

Touched_stale(app, status, t) == [app EXCEPT !.status = status]

\* app["last_updated"] = datetime.now().strftime("%Y-%m-%d %H:%M")
Touched(app, status, t) == [app EXCEPT !.status = status, !.last_updated = StampOf(t)]

WithNotes_always(app, notes) == [app EXCEPT !.notes = Strip(notes)]

\* if notes: app["notes"] = notes.strip()
WithNotes(app, notes) == IF Truthy(notes) THEN [app EXCEPT !.notes = Strip(notes)] ELSE app

update_application(application_id, status, notes) ==
    LET op == "update_application"
        id == IntOf(application_id)
        status1 == IF Truthy(status) THEN Lower(Strip(status)) ELSE ""
        apps == LoadList(fs[TRACKER_FILE])
        i == FindId(apps, id)
    IN
    IF BadId(application_id)
    THEN Returns(Text(op, "Error: Please provide a valid application ID (positive number).",
                      <<>>))
    ELSE IF ~ValidStatus(status1)
    THEN Returns(Text(op, "Error: Invalid status '{status}'. Must be one of: {VALID_STATUSES}",
                      [status |-> status1]))
    ELSE IF LoadRaises(fs[TRACKER_FILE])
    THEN Returns(Raised(op, "UnicodeDecodeError"))
    ELSE IF i = 0
    THEN Returns(Text(op, "Error: Application #{id} not found.", [id |-> id]))
    ELSE LET app1 == Touched(apps[i], status1, now)
             app2 == WithNotes(app1, notes)
         IN  /\ SaveFile(TRACKER_FILE, [apps EXCEPT ![i] = app2])
             /\ ret' = Text(op, "Application #{id} updated!",
                            [id |-> id, company |-> app2.company, role |-> app2.role,
                             old_status |-> apps[i].status, status |-> status1])
             /\ UNCHANGED <<now, codec, calls>>

\* [a for a in apps if a["status"] == status]
WithStatus(apps, status) == SelectSeq(apps, LAMBDA a : a.status = status)

\* One line of the listing.
Row(app) == [id |-> app.id, company |-> app.company, role |-> app.role,
             applied_date |-> app.applied_date, notes |-> app.notes]

Rows(apps) == [i \in 1..Len(apps) |-> Row(apps[i])]

\* The groups of the listing, in the order of VALID_STATUSES, empty ones skipped.
RECURSIVE Groups(_, _)
Groups(apps, k) ==
    IF k > Len(VALID_STATUSES) THEN <<>>
    ELSE LET group == WithStatus(apps, VALID_STATUSES[k])
         IN  (IF Len(group) = 0 THEN <<>>
              ELSE <<[status |-> VALID_STATUSES[k], count |-> Len(group),
                      rows |-> Rows(group)]>>)
             \o Groups(apps, k + 1)

list_applications(status_filter) ==
    LET op == "list_applications"
        checked == Truthy(status_filter) /\ Truthy(Strip(status_filter))
        filter == IF checked THEN Lower(Strip(status_filter)) ELSE status_filter
        all == LoadList(fs[TRACKER_FILE])
        apps == IF Truthy(filter) THEN WithStatus(all, filter) ELSE all
    IN
    IF checked /\ ~ValidStatus(filter)
    THEN Returns(Text(op, "Error: Invalid filter '{status_filter}'. Must be one of: {VALID_STATUSES}",
                      [status_filter |-> filter]))
    ELSE IF LoadRaises(fs[TRACKER_FILE])
    THEN Returns(Raised(op, "UnicodeDecodeError"))
    ELSE IF Len(all) = 0
    THEN Returns(Text(op, "No applications tracked yet. Use add_application() to start tracking!",
                      <<>>))
    ELSE IF Truthy(filter) /\ Len(apps) = 0
    THEN Returns(Text(op, "No applications with status '{status_filter}'.",
                      [status_filter |-> filter]))
    ELSE Returns(Text(op, "Job Applications ({total} total):",
                      [total |-> Len(apps),
                       groups |-> Groups(apps, 1),
                       summary |->
                          [total |-> Len(apps),
                           active |-> Len(SelectSeq(apps,
                                        LAMBDA a : a.status \notin {"rejected", "withdrawn"})),
                           offers |-> Len(WithStatus(apps, "offer"))]]))

(***************************************************************************)
(* str.upper(), str.title(), len(str.split())                              *)
(***************************************************************************)
UpperCh(c) ==
    IF \E i \in 1..Len(LowerAlpha) : SubSeq(LowerAlpha, i, i) = c
    THEN LET i == CHOOSE j \in 1..Len(LowerAlpha) : SubSeq(LowerAlpha, j, j) = c
         IN  SubSeq(UpperAlpha, i, i)
    ELSE c

RECURSIVE Upper(_)
Upper(s) ==
    IF Len(s) = 0 THEN ""
    ELSE UpperCh(SubSeq(s, 1, 1)) \o Upper(SubSeq(s, 2, Len(s)))

IsLetter(c) == UpperCh(c) # c \/ LowerCh(c) # c

\* str.title(): a letter that follows a letter is lower-cased, any other
\* letter is upper-cased.
RECURSIVE TitleFrom(_, _)
TitleFrom(s, afterLetter) ==
    IF Len(s) = 0 THEN ""
    ELSE LET c == SubSeq(s, 1, 1)
         IN  (IF afterLetter THEN LowerCh(c) ELSE UpperCh(c))
             \o TitleFrom(SubSeq(s, 2, Len(s)), IsLetter(c))

Title(s) == TitleFrom(s, FALSE)

\* len(s.split()): the runs of characters that are no whitespace
RECURSIVE WordsFrom(_, _)
WordsFrom(s, inWord) ==
    IF Len(s) = 0 THEN 0
    ELSE LET sp == IsSpace(SubSeq(s, 1, 1))
         IN  (IF ~sp /\ ~inWord THEN 1 ELSE 0) + WordsFrom(SubSeq(s, 2, Len(s)), ~sp)

WordCount(s) == WordsFrom(s, FALSE)

(***************************************************************************)
(* daily_planner.py: todos and weekly goals                                *)
(***************************************************************************)
TODO_PRIORITIES == <<"high", "medium", "low">>

\* "completed_at": "", the stamp of a record that is not completed
NoStamp == 0 - 1

DaysPerWeek == 7

\* (now - timedelta(days=now.weekday())).strftime("%Y-%m-%d"); day 0 is a Monday
WeekStartOf(t) == DateOf(t) - (DateOf(t) % DaysPerWeek)

\* sum(1 for t in todos if t["status"] == status)
CountStatus(list, status) == Len(SelectSeq(list, LAMBDA r : r.status = status))

add_task(task, priority, due_date) ==
    LET op == "add_task"
        task1 == Strip(task)
        priority1 == IF Truthy(priority) THEN Lower(Strip(priority)) ELSE "medium"
        todos == LoadList(fs[TODOS_FILE])
        todo == [id |-> NextId(todos),
                 task |-> task1,
                 priority |-> priority1,
                 status |-> "pending",
                 due_date |-> IF Truthy(due_date) THEN Strip(due_date) ELSE "",
                 created |-> StampOf(now),
                 completed_at |-> NoStamp]
    IN
    IF IsBlank(task)
    THEN Returns(Text(op, "Error: Task description is required.", <<>>))
    ELSE IF ~InList(priority1, TODO_PRIORITIES)
    THEN Returns(Text(op, "Error: Priority must be one of: {TODO_PRIORITIES}", <<>>))
    ELSE IF LoadRaises(fs[TODOS_FILE])
    THEN Returns(Raised(op, "UnicodeDecodeError"))
    ELSE /\ Room
         /\ SaveFile(TODOS_FILE, Appended(todos, todo))
         /\ ret' = Text(op, "Task #{id} added!",
                        [id |-> todo.id, priority |-> Upper(priority1), task |-> task1,
                         due_date |-> todo.due_date])
         /\ UNCHANGED <<now, codec, calls>>

IsCompleted_never(todo) == FALSE

\* todo["status"] == "completed"
IsCompleted(todo) == todo.status = "completed"

Completed_unstamped(record, stamp) == [record EXCEPT !.status = "completed"]

\* record["status"] = "completed"; record["completed_at"] = now, to the minute
Completed(record, stamp) ==
    [record EXCEPT !.status = "completed", !.completed_at = stamp]

complete_task(task_id) ==
    LET op == "complete_task"
        id == IntOf(task_id)
        todos == LoadList(fs[TODOS_FILE])
        i == FindId(todos, id)
    IN
    IF BadId(task_id)
    THEN Returns(Text(op, "Error: Please provide a valid task ID.", <<>>))
    ELSE IF LoadRaises(fs[TODOS_FILE])
    THEN Returns(Raised(op, "UnicodeDecodeError"))
    ELSE IF i = 0
    THEN Returns(Text(op, "Error: Task #{task_id} not found.", [id |-> id]))
    ELSE IF IsCompleted(todos[i])
    THEN Returns(Text(op, "Task #{task_id} is already completed!", [id |-> id]))
    ELSE LET done == [todos EXCEPT ![i] = Completed(@, StampOf(now))]
         IN  /\ SaveFile(TODOS_FILE, done)
             /\ ret' = Text(op, "Task #{task_id} completed: {task}",
                            [id |-> id, task |-> todos[i].task,
                             completed |-> CountStatus(done, "completed"),
                             pending |-> CountStatus(done, "pending")])
             /\ UNCHANGED <<now, codec, calls>>

GOAL_CATEGORIES == <<"career", "health", "learning", "personal", "general">>

set_weekly_goal(goal, category) ==
    LET op == "set_weekly_goal"
        goal1 == Strip(goal)
        category1 == IF Truthy(category) THEN Lower(Strip(category)) ELSE "general"
        category2 == IF InList(category1, GOAL_CATEGORIES) THEN category1 ELSE "general"
        goals == LoadList(fs[GOALS_FILE])
        goal_entry == [id |-> NextId(goals),
                       goal |-> goal1,
                       category |-> category2,
                       status |-> "in_progress",
                       week_start |-> WeekStartOf(now),
                       created |-> StampOf(now),
                       completed_at |-> NoStamp]
    IN
    IF IsBlank(goal)
    THEN Returns(Text(op, "Error: Goal description is required.", <<>>))
    ELSE IF LoadRaises(fs[GOALS_FILE])
    THEN Returns(Raised(op, "UnicodeDecodeError"))
    ELSE /\ Room
         /\ SaveFile(GOALS_FILE, Appended(goals, goal_entry))
         /\ ret' = Text(op, "Weekly goal #{id} set!",
                        [id |-> goal_entry.id, category |-> Upper(category2),
                         goal |-> goal1, week_start |-> goal_entry.week_start])
         /\ UNCHANGED <<now, codec, calls>>

complete_goal(goal_id) ==
    LET op == "complete_goal"
        id == IntOf(goal_id)
        goals == LoadList(fs[GOALS_FILE])
        i == FindId(goals, id)
    IN
    IF BadId(goal_id)
    THEN Returns(Text(op, "Error: Please provide a valid goal ID.", <<>>))
    ELSE IF LoadRaises(fs[GOALS_FILE])
    THEN Returns(Raised(op, "UnicodeDecodeError"))
    ELSE IF i = 0
    THEN Returns(Text(op, "Error: Goal #{goal_id} not found.", [id |-> id]))
    ELSE /\ SaveFile(GOALS_FILE, [goals EXCEPT ![i] = Completed(@, StampOf(now))])
         /\ ret' = Text(op, "Goal #{goal_id} completed: {goal}",
                        [id |-> id, goal |-> goals[i].goal])
         /\ UNCHANGED <<now, codec, calls>>

Min(a, b) == IF a < b THEN a ELSE b
Max(a, b) == IF a > b THEN a ELSE b

(***************************************************************************)
(* Python floats are IEEE-754 doubles.  A non-negative double is m * 2^e   *)
(* with a mantissa m of at most 53 bits, kept odd here (or zero);          *)
(* mantissas are naturals in limbs of 15 bits, lowest limb first, with no  *)
(* leading zero limb.  Every operation rounds its exact result to the      *)
(* nearest double, a tie to the even 53-bit mantissa.                      *)
(***************************************************************************)
Limb == 2^15
Mantissa == 52 + 1       \* the stored bits of a double and its leading one

RECURSIVE Float(_, _, _, _, _)
RECURSIVE BigOf(_)
BigOf(n) == IF n = 0 THEN <<>> ELSE <<n % Limb>> \o BigOf(n \div Limb)

BigLimb(a, i) == IF i <= Len(a) THEN a[i] ELSE 0

RECURSIVE BigNorm(_)
BigNorm(a) ==
    IF Len(a) > 0 /\ a[Len(a)] = 0 THEN BigNorm(SubSeq(a, 1, Len(a) - 1)) ELSE a

RECURSIVE BigAddFrom(_, _, _, _)
BigAddFrom(a, b, i, carry) ==
    IF i > Len(a) /\ i > Len(b) THEN (IF carry = 0 THEN <<>> ELSE <<carry>>)
    ELSE LET s == BigLimb(a, i) + BigLimb(b, i) + carry
         IN  <<s % Limb>> \o BigAddFrom(a, b, i + 1, s \div Limb)

BigAdd(a, b) == BigAddFrom(a, b, 1, 0)

\* a - b, for a >= b
RECURSIVE BigSubFrom(_, _, _, _)
BigSubFrom(a, b, i, borrow) ==
    IF i > Len(a) THEN <<>>
    ELSE LET d == a[i] - BigLimb(b, i) - borrow
         IN  IF d < 0 THEN <<d + Limb>> \o BigSubFrom(a, b, i + 1, 1)
             ELSE <<d>> \o BigSubFrom(a, b, i + 1, 0)

BigSub(a, b) == BigNorm(BigSubFrom(a, b, 1, 0))

\* -1, 0 or 1 as a is below, equal to or above b
RECURSIVE BigCmpFrom(_, _, _)
BigCmpFrom(a, b, i) ==
    IF i = 0 THEN 0
    ELSE IF a[i] < b[i] THEN 0 - 1
    ELSE IF a[i] > b[i] THEN 1
    ELSE BigCmpFrom(a, b, i - 1)

BigCmp(a, b) ==
    IF Len(a) < Len(b) THEN 0 - 1
    ELSE IF Len(a) > Len(b) THEN 1
    ELSE BigCmpFrom(a, b, Len(a))

\* a * k for 0 < k < Limb
RECURSIVE BigMulSmallFrom(_, _, _, _)
BigMulSmallFrom(a, k, i, carry) ==
    IF i > Len(a) THEN (IF carry = 0 THEN <<>> ELSE <<carry>>)
    ELSE LET p == a[i] * k + carry
         IN  <<p % Limb>> \o BigMulSmallFrom(a, k, i + 1, p \div Limb)

BigMulSmall(a, k) == IF k = 0 THEN <<>> ELSE BigMulSmallFrom(a, k, 1, 0)

\* floor(a / k) for 0 < k < Limb
RECURSIVE BigDivSmallFrom(_, _, _, _)
BigDivSmallFrom(a, k, i, rem) ==
    IF i = 0 THEN <<>>
    ELSE LET n == rem * Limb + a[i]
         IN  BigDivSmallFrom(a, k, i - 1, n % k) \o <<n \div k>>

BigDivSmall(a, k) == BigNorm(BigDivSmallFrom(a, k, Len(a), 0))

RECURSIVE BigShl(_, _)
BigShl(a, n) ==
    IF Len(a) = 0 \/ n = 0 THEN a
    ELSE IF n >= 15 THEN BigShl(<<0>> \o a, n - 15)
    ELSE BigMulSmall(a, 2^n)

\* floor(a / 2^n)
RECURSIVE BigShr(_, _)
BigShr(a, n) ==
    IF Len(a) = 0 \/ n = 0 THEN a
    ELSE IF n >= 15 THEN BigShr(Tail(a), n - 15)
    ELSE BigDivSmall(a, 2^n)

RECURSIVE BigMulFrom(_, _, _)
BigMulFrom(a, b, i) ==
    IF i > Len(b) THEN <<>>
    ELSE BigAdd(BigShl(BigMulSmall(a, b[i]), 15 * (i - 1)), BigMulFrom(a, b, i + 1))

BigMul(a, b) == BigMulFrom(a, b, 1)

RECURSIVE BitsOf(_)
BitsOf(n) == IF n = 0 THEN 0 ELSE 1 + BitsOf(n \div 2)

\* the number of bits of a
BigBits(a) == IF Len(a) = 0 THEN 0 ELSE 15 * (Len(a) - 1) + BitsOf(a[Len(a)])

BigOdd(a) == Len(a) > 0 /\ a[1] % 2 = 1

\* The value of a bignum that fits an integer of the model.
RECURSIVE BigToInt(_)
BigToInt(a) == IF Len(a) = 0 THEN 0 ELSE a[1] + Limb * BigToInt(Tail(a))

\* floor(n / d) and n - d * floor(n / d), for n < d * 2^bits and bits < 15
RECURSIVE DivBits(_, _, _, _)
DivBits(n, d, bits, q) ==
    IF bits = 0 THEN [q |-> q, r |-> n]
    ELSE LET t == BigShl(d, bits - 1)
         IN  IF BigCmp(n, t) >= 0
             THEN DivBits(BigSub(n, t), d, bits - 1, 2 * q + 1)
             ELSE DivBits(n, d, bits - 1, 2 * q)

\* the same for any number of bits, 14 bits of the quotient at a time
RECURSIVE BigDivMod(_, _, _, _)
BigDivMod(n, d, bits, q) ==
    IF bits = 0 THEN [q |-> q, r |-> n]
    ELSE LET k == IF bits % 14 = 0 THEN 14 ELSE bits % 14
             part == Float("DivBits", n, BigShl(d, bits - k), k, 0)
         IN  BigDivMod(part.r, d, bits - k, BigAdd(BigShl(q, k), BigOf(part.q)))

\* floor(n / d) rounded to the nearest integer, a tie to the even one;
\* up is 1, 0 or -1 as the result is above, equal to or below n / d
BigRoundDiv(n, d, bits) ==
    LET qr == Float("BigDivMod", n, d, bits, <<>>)
        half == BigCmp(BigMulSmall(qr.r, 2), d)
    IN  IF Len(qr.r) = 0 THEN [q |-> qr.q, up |-> 0]
        ELSE IF half > 0 \/ (half = 0 /\ BigOdd(qr.q))
        THEN [q |-> BigAdd(qr.q, <<1>>), up |-> 1]
        ELSE [q |-> qr.q, up |-> 0 - 1]

FlZero == [m |-> <<>>, e |-> 0, up |-> 0]

\* a without its trailing zero bits, and how many they were
RECURSIVE BigTrim(_, _)
BigTrim(a, k) ==
    IF Len(a) = 0 THEN [n |-> a, k |-> k]
    ELSE IF a[1] = 0 THEN BigTrim(Tail(a), k + 15)
    ELSE IF a[1] % 2 = 0 THEN BigTrim(BigDivSmall(a, 2), k + 1)
    ELSE [n |-> a, k |-> k]

\* m * 2^e with its mantissa made odd, the form every float below is kept in
FlTrimmed(m, e, up) ==
    LET t == Float("BigTrim", m, 0, 0, 0) IN [m |-> t.n, e |-> e + t.k, up |-> up]

\* The double nearest to (n / d) * 2^e, by long division
FlDivide(n, d, e) ==
    LET s0 == Mantissa - (BigBits(n) - BigBits(d))
        n0 == IF s0 > 0 THEN BigShl(n, s0) ELSE n
        d0 == IF s0 < 0 THEN BigShl(d, 0 - s0) ELSE d
        \* n0 / d0 is in [2^52, 2^54); bring it into [2^52, 2^53)
        big == BigCmp(n0, BigShl(d0, Mantissa)) >= 0
        d1 == IF big THEN BigMulSmall(d0, 2) ELSE d0
        s == IF big THEN s0 - 1 ELSE s0
        r == Float("BigRoundDiv", n0, d1, Mantissa, 0)
    IN  FlTrimmed(r.q, e - s, r.up)

\* The double nearest to (n / d) * 2^e; a quotient that is a double already
\* needs no division
FlRound(n, d, e) ==
    IF Len(n) = 0 THEN FlZero
    ELSE LET tn == Float("BigTrim", n, 0, 0, 0)
             td == Float("BigTrim", d, 0, 0, 0)
         IN  IF td.n = <<1>> /\ BigBits(tn.n) <= Mantissa
             THEN [m |-> tn.n, e |-> e + tn.k - td.k, up |-> 0]
             ELSE Float("FlDivide", n, d, e, 0)

\* float(x) of a number written with three decimals
FlOfMilli(milli) ==
    IF milli % Milli = 0 THEN Float("FlRound", BigOf(milli \div Milli), <<1>>, 0, 0)
    ELSE Float("FlRound", BigOf(milli), BigOf(Milli), 0, 0)

\* The mantissa of x at exponent e <= x.e
FlAt(x, e) == BigShl(x.m, x.e - e)

FlCmp(x, y) ==
    LET e == Min(x.e, y.e) IN BigCmp(FlAt(x, e), FlAt(y, e))

FlAdd(x, y) ==
    LET e == Min(x.e, y.e) IN Float("FlRound", BigAdd(FlAt(x, e), FlAt(y, e)), <<1>>, e, 0)

FlMul(x, y) == Float("FlRound", Float("BigMul", x.m, y.m, 0, 0), <<1>>, x.e + y.e, 0)

FlDiv(x, y) == Float("FlRound", x.m, y.m, x.e - y.e, 0)

\* round(x * scale) as an integer: round(x) for scale 1, the hundredths of
\* round(x, 2) for scale 100; a tie goes to the even integer
FlRoundInt(x, scale) ==
    IF Len(x.m) = 0 THEN 0
    ELSE LET n == BigMulSmall(x.m, scale)
         IN  IF x.e >= 0 THEN BigToInt(BigShl(n, x.e))
             ELSE LET d == BigShl(<<1>>, 0 - x.e)
                      bits == IF BigBits(n) > BigBits(d) THEN BigBits(n) - BigBits(d) + 1 ELSE 1
                  IN  BigToInt(Float("BigRoundDiv", n, d, bits, 0).q)

\* One operator that reaches every operator of this section, so that each
\* of them refers to the others through it.
Float(op, a, b, c, d) ==
    CASE op = "BigMul" -> BigMul(a, b)
      [] op = "DivBits" -> DivBits(a, b, c, d)
      [] op = "BigDivMod" -> BigDivMod(a, b, c, d)
      [] op = "BigRoundDiv" -> BigRoundDiv(a, b, c)
      [] op = "BigTrim" -> BigTrim(a, b)
      [] op = "FlDivide" -> FlDivide(a, b, c)
      [] op = "FlRound" -> FlRound(a, b, c)
      [] op = "FlOfMilli" -> FlOfMilli(a)
      [] op = "FlCmp" -> FlCmp(a, b)
      [] op = "FlAdd" -> FlAdd(a, b)
      [] op = "FlMul" -> FlMul(a, b)
      [] op = "FlDiv" -> FlDiv(a, b)
      [] op = "FlRoundInt" -> FlRoundInt(a, b)

(***************************************************************************)
(* finance.py: expenses, income and savings goals.  Amounts are counted    *)
(* in thousandths; a stored amount is a multiple of 10 (two decimals).     *)
(***************************************************************************)
EXPENSE_CATEGORIES ==
    <<"food", "transport", "rent", "utilities", "entertainment",
      "shopping", "health", "education", "subscriptions", "other">>

INCOME_TYPES == <<"salary", "freelance", "investment", "gift", "refund", "other">>

DaysPerMonth == 2       \* a month, scaled down

\* strftime("%Y-%m"), the prefix of a date that startswith() compares
MonthOf(date) == date \div DaysPerMonth

BadAmount_type(x) == ~IsNumber(x)

\* not isinstance(amount, (int, float)) or amount <= 0
BadAmount(x) == ~IsNumber(x) \/ x.val <= 0

\* round(x, 2) of a float x, in thousandths
Round2F(x) == 10 * Float("FlRoundInt", x, 100, 0, 0)

\* round(float(amount), 2), in thousandths.  The double of an amount lies
\* within 2^-53 of it in proportion, so only an amount halfway between two
\* hundredths needs the double to tell the direction.
Round2(milli) ==
    IF milli % 10 = 5 THEN Round2F(Float("FlOfMilli", milli, 0, 0, 0)) ELSE 10 * ((milli + 5) \div 10)

\* round((part / whole) * 100) of floats
FlPercent(part, whole) ==
    LET hundred == Float("FlOfMilli", 100 * Milli, 0, 0, 0)
        ratio == Float("FlDiv", part, whole, 0, 0)
    IN  Float("FlRoundInt", Float("FlMul", ratio, hundred, 0, 0), 1, 0, 0)

\* 100 * part / whole lies halfway between two integers (amounts in
\* thousandths).  Any other quotient is further from halfway than the
\* doubles are from the amounts, and rounds as NearestPercent says.
HalfwayPercent(part, whole) ==
    (200 * part) % whole = 0 /\ ((200 * part) \div whole) % 2 = 1

NearestPercent(part, whole) == ((200 * part) \div whole + 1) \div 2

\* round((part / whole) * 100) of two amounts
Percent(part, whole) ==
    IF HalfwayPercent(part, whole)
    THEN FlPercent(Float("FlOfMilli", part, 0, 0, 0), Float("FlOfMilli", whole, 0, 0, 0))
    ELSE NearestPercent(part, whole)

\* sum(e["amount"] for e in list), as the float the additions give
RECURSIVE FlSumFrom(_, _, _)
FlSumFrom(list, k, acc) ==
    IF k > Len(list) THEN acc
    ELSE LET amount == Float("FlOfMilli", list[k].amount, 0, 0, 0)
         IN  FlSumFrom(list, k + 1, Float("FlAdd", acc, amount, 0, 0))

FlSum(list) == FlSumFrom(list, 1, FlZero)

\* sum(e["amount"] for e in list), to the thousandth
RECURSIVE SumAmounts(_)
SumAmounts(list) ==
    IF Len(list) = 0 THEN 0 ELSE Head(list).amount + SumAmounts(Tail(list))

\* [e for e in list if e["date"] == date]
OnDate(list, date) == SelectSeq(list, LAMBDA e : e.date = date)

\* [e for e in list if e["date"].startswith(month)]
InMonth(list, month) == SelectSeq(list, LAMBDA e : MonthOf(e.date) = month)

\* _load_json_dict: the object the file holds, else {}
LoadDict(f) == IF f.kind = "json" THEN f.data ELSE <<>>

NoWarning == [warn |-> FALSE, pct |-> 0]

\* The budget check of add_expense over the month's expenses: whether the
\* text carries a WARNING and the percentage it names.  The doubles decide
\* where the amounts stand exactly at 80% or exactly halfway between two
\* percentages; everywhere else they agree with the amounts.
BudgetWarning(budget, expenses) ==
    IF budget = <<>> THEN NoWarning
    ELSE LET monthly_budget == budget.monthly_total
             month_total == SumAmounts(expenses)
             over == IF 10 * month_total = 8 * monthly_budget
                     THEN LET limit == Float("FlMul",
                                             Float("FlOfMilli", monthly_budget, 0, 0, 0),
                                             Float("FlOfMilli", 800, 0, 0, 0), 0, 0)
                          IN  Float("FlCmp", FlSum(expenses), limit, 0, 0) > 0
                     ELSE 10 * month_total > 8 * monthly_budget
             pct == IF HalfwayPercent(month_total, monthly_budget)
                    THEN FlPercent(FlSum(expenses),
                                   Float("FlOfMilli", monthly_budget, 0, 0, 0))
                    ELSE NearestPercent(month_total, monthly_budget)
         IN  IF monthly_budget > 0 /\ over
             THEN [warn |-> TRUE, pct |-> pct]
             ELSE NoWarning

add_expense(amount, category, description) ==
    LET op == "add_expense"
        category1 == IF Truthy(category) THEN Lower(Strip(category)) ELSE "other"
        amount1 == Round2(amount.val)
        today == DateOf(now)
        expenses == LoadList(fs[EXPENSES_FILE])
        expense == [id |-> NextId(expenses),
                    amount |-> amount1,
                    category |-> category1,
                    description |-> IF Truthy(description) THEN Strip(description) ELSE "",
                    date |-> today,
                    timestamp |-> StampOf(now)]
        saved == Appended(expenses, expense)
        today_total == SumAmounts(OnDate(saved, today))
        budget_warn == BudgetWarning(LoadDict(fs[BUDGET_FILE]),
                                     InMonth(saved, MonthOf(today)))
    IN
    IF BadAmount(amount)
    THEN Returns(Text(op, "Error: Amount must be a positive number.", <<>>))
    ELSE IF ~InList(category1, EXPENSE_CATEGORIES)
    THEN Returns(Text(op, "Error: Invalid category. Choose from: {EXPENSE_CATEGORIES}", <<>>))
    ELSE IF LoadRaises(fs[EXPENSES_FILE])
    THEN Returns(Raised(op, "UnicodeDecodeError"))
    ELSE /\ Room
         /\ SaveFile(EXPENSES_FILE, saved)
         /\ ret' = IF LoadRaises(fs[BUDGET_FILE])
                   THEN Raised(op, "UnicodeDecodeError")
                   ELSE Text(op, "Expense #{id} logged!",
                             [id |-> expense.id, category |-> Title(category1),
                              amount |-> amount1, description |-> expense.description,
                              today_total |-> today_total,
                              warning |-> budget_warn.warn,
                              warning_pct |-> budget_warn.pct])
         /\ UNCHANGED <<now, codec, calls>>

add_income(amount, source, description) ==
    LET op == "add_income"
        source1 == IF Truthy(source) THEN Lower(Strip(source)) ELSE "salary"
        source2 == IF InList(source1, INCOME_TYPES) THEN source1 ELSE "other"
        amount1 == Round2(amount.val)
        income == LoadList(fs[INCOME_FILE])
        entry == [id |-> NextId(income),
                  amount |-> amount1,
                  source |-> source2,
                  description |-> IF Truthy(description) THEN Strip(description) ELSE "",
                  date |-> DateOf(now),
                  timestamp |-> StampOf(now)]
        saved == Appended(income, entry)
    IN
    IF BadAmount(amount)
    THEN Returns(Text(op, "Error: Amount must be a positive number.", <<>>))
    ELSE IF LoadRaises(fs[INCOME_FILE])
    THEN Returns(Raised(op, "UnicodeDecodeError"))
    ELSE /\ Room
         /\ SaveFile(INCOME_FILE, saved)
         /\ ret' = Text(op, "Income logged!",
                        [source |-> Title(source2), amount |-> amount1,
                         month_income |->
                            SumAmounts(InMonth(saved, MonthOf(DateOf(now))))])
         /\ UNCHANGED <<now, codec, calls>>

\* set_budget, for a category_budgets text that holds no "category:amount"
\* item: the items without a colon are skipped and categories stays empty.
set_budget(monthly_total, category_budgets) ==
    LET op == "set_budget"
        budget == [monthly_total |-> Round2(monthly_total.val),
                   categories |-> <<>>,
                   set_date |-> DateOf(now)]
    IN
    IF BadAmount(monthly_total)
    THEN Returns(Text(op, "Error: Monthly budget must be a positive number.", <<>>))
    ELSE /\ ~Contains(category_budgets, ":")
         /\ SaveFile(BUDGET_FILE, budget)
         /\ ret' = Text(op, "Monthly budget set: Rs.{monthly_total}",
                        [monthly_total |-> budget.monthly_total])
         /\ UNCHANGED <<now, codec, calls>>

set_savings_goal(name, target_amount, deadline) ==
    LET op == "set_savings_goal"
        name1 == Strip(name)
        savings == LoadList(fs[SAVINGS_FILE])
        goal == [id |-> NextId(savings),
                 name |-> name1,
                 target |-> Round2(target_amount.val),
                 saved |-> 0,
                 deadline |-> IF Truthy(deadline) THEN Strip(deadline) ELSE "",
                 deposits |-> <<>>,
                 created |-> DateOf(now)]
    IN
    IF IsBlank(name)
    THEN Returns(Text(op, "Error: Goal name is required.", <<>>))
    ELSE IF BadAmount(target_amount)
    THEN Returns(Text(op, "Error: Target amount must be a positive number.", <<>>))
    ELSE IF LoadRaises(fs[SAVINGS_FILE])
    THEN Returns(Raised(op, "UnicodeDecodeError"))
    ELSE /\ Room
         /\ SaveFile(SAVINGS_FILE, Appended(savings, goal))
         /\ ret' = Text(op, "Savings goal created!",
                        [id |-> goal.id, name |-> name1, target |-> goal.target,
                         deadline |-> goal.deadline])
         /\ UNCHANGED <<now, codec, calls>>

MaxDeposits == 2        \* deposits stored at most in one savings goal

WithDeposit_lost(goal, amount, date) == [goal EXCEPT !.saved = Round2(@ + amount)]

\* goal["saved"] = round(goal["saved"] + amount, 2) and
\* goal["deposits"].append({"amount": amount, "date": ...})
WithDeposit(goal, amount, date) ==
    [goal EXCEPT !.saved = Round2(@ + amount),
                 !.deposits = Append(@, [amount |-> amount, date |-> date])]

add_to_savings(goal_id, amount) ==
    LET op == "add_to_savings"
        id == IntOf(goal_id)
        amount1 == Round2(amount.val)
        savings == LoadList(fs[SAVINGS_FILE])
        i == FindId(savings, id)
    IN
    IF BadId(goal_id)
    THEN Returns(Text(op, "Error: Please provide a valid goal ID.", <<>>))
    ELSE IF BadAmount(amount)
    THEN Returns(Text(op, "Error: Amount must be a positive number.", <<>>))
    ELSE IF LoadRaises(fs[SAVINGS_FILE])
    THEN Returns(Raised(op, "UnicodeDecodeError"))
    ELSE IF i = 0
    THEN Returns(Text(op, "Error: Savings goal #{goal_id} not found.", [id |-> id]))
    \* round(goal["saved"] + amount, 2): the float sum of two amounts of two
    \* decimals is no tie, so it rounds as their exact sum does
    ELSE LET goal == WithDeposit(savings[i], amount1, DateOf(now))
             pct == Min(100, Percent(goal.saved, goal.target))
         IN  /\ Len(savings[i].deposits) < MaxDeposits
             /\ SaveFile(SAVINGS_FILE, [savings EXCEPT ![i] = goal])
             /\ ret' = IF goal.target = 0
                       THEN Raised(op, "ZeroDivisionError")
                       ELSE Text(op, "Added Rs.{amount} to '{name}'!",
                                 [amount |-> amount1, name |-> goal.name,
                                  saved |-> goal.saved, target |-> goal.target,
                                  pct |-> pct,
                                  remaining |-> Max(0, goal.target - goal.saved),
                                  goal_reached |-> pct >= 100])
             /\ UNCHANGED <<now, codec, calls>>

(***************************************************************************)
(* daily_planner.py: habits.  A habit is a name, the day it was created    *)
(* and its entries, one {date, completed} per day it was tracked.          *)
(***************************************************************************)
\* The first index of the habit with this name, 0 when there is none:
\* `for h in habits: if h["name"] == habit_name`
HabitIndex(habits, name) ==
    IF \E i \in 1..Len(habits) : habits[i].name = name
    THEN CHOOSE i \in 1..Len(habits) :
            /\ habits[i].name = name
            /\ \A j \in 1..(i - 1) : habits[j].name # name
    ELSE 0

EntryIndex_none(entries, date) == 0

\* next((e for e in entries if e["date"] == date), None), as an index
EntryIndex(entries, date) ==
    IF \E i \in 1..Len(entries) : entries[i].date = date
    THEN CHOOSE i \in 1..Len(entries) :
            /\ entries[i].date = date
            /\ \A j \in 1..(i - 1) : entries[j].date # date
    ELSE 0

\* entries_by_date.get(date) of {e["date"]: e["completed"] for e in entries}:
\* the flag of the last entry of that date, false when there is none
CompletedOn(entries, date) ==
    \E i \in 1..Len(entries) :
        /\ entries[i].date = date
        /\ \A j \in (i + 1)..Len(entries) : entries[j].date # date
        /\ entries[i].completed

\* sum(1 for e in entries if e["completed"])
TotalDone(entries) == Len(SelectSeq(entries, LAMBDA e : e.completed))

Streak_total(entries, date) == TotalDone(entries)

\* The walk back from `date`, a day at a time, while the day is completed
RECURSIVE Streak(_, _)
Streak(entries, date) ==
    IF CompletedOn(entries, date) THEN 1 + Streak(entries, date - 1) ELSE 0

\* round((total_done / total) * 100) if total > 0 else 0
Rate(entries) ==
    IF Len(entries) > 0 THEN Percent(TotalDone(entries) * Milli, Len(entries) * Milli) ELSE 0

\* habit_name = habit_name.strip().lower() is bound once, as a value
track_habit(habit_name, completed) ==
    \E name \in {Lower(Strip(habit_name))} :
    LET op == "track_habit"
        today == DateOf(now)
        habits == LoadList(fs[HABITS_FILE])
        h == HabitIndex(habits, name)
        found == IF h = 0
                 THEN Append(habits, [name |-> name, entries |-> <<>>, created |-> today])
                 ELSE habits
        i == IF h = 0 THEN Len(found) ELSE h
        e == EntryIndex(found[i].entries, today)
        entries == IF e # 0
                   THEN [found[i].entries EXCEPT ![e].completed = completed]
                   ELSE Append(found[i].entries, [date |-> today, completed |-> completed])
    IN
    IF IsBlank(habit_name)
    THEN Returns(Text(op, "Error: Habit name is required.", <<>>))
    ELSE IF LoadRaises(fs[HABITS_FILE])
    THEN Returns(Raised(op, "UnicodeDecodeError"))
    ELSE /\ SaveFile(HABITS_FILE, [found EXCEPT ![i].entries = entries])
         /\ ret' = Text(op, "Habit: {habit_name} - {status} for today!",
                        [name |-> name,
                         status |-> IF completed THEN "Done" ELSE "Skipped",
                         streak |-> Streak(entries, today),
                         rate |-> Rate(entries),
                         total_done |-> TotalDone(entries),
                         total_days |-> Len(entries)])
         /\ UNCHANGED <<now, codec, calls>>

\* One line of view_habits
HabitRow(habit, today) ==
    [name |-> habit.name,
     done_today |-> CompletedOn(habit.entries, today),
     streak |-> Streak(habit.entries, today),
     rate |-> Rate(habit.entries),
     total_done |-> TotalDone(habit.entries),
     total |-> Len(habit.entries)]

view_habits ==
    LET op == "view_habits"
        habits == LoadList(fs[HABITS_FILE])
    IN
    IF LoadRaises(fs[HABITS_FILE])
    THEN Returns(Raised(op, "UnicodeDecodeError"))
    ELSE IF Len(habits) = 0
    THEN Returns(Text(op, "No habits tracked yet! Use track_habit('exercise') to start.",
                      <<>>))
    ELSE Returns(Text(op, "Your Habits ({n} tracked):",
                      [k \in 1..Len(habits) |-> HabitRow(habits[k], DateOf(now))]))

(***************************************************************************)
(* wellness.py: the mood log and the journal.  The tips, quotes and        *)
(* prompts a text carries are drawn at random and are left out of v.       *)
(***************************************************************************)
VALID_MOODS ==
    <<"great", "good", "okay", "low", "stressed", "anxious", "sad", "angry", "tired">>

\* len(sorted(set(e["date"] for e in entries)))
DatesLogged(entries) == Cardinality({entries[k].date : k \in 1..Len(entries)})

log_mood(mood, notes) ==
    LET op == "log_mood"
        mood1 == Lower(Strip(mood))
        entries == LoadList(fs[MOOD_FILE])
        entry == [mood |-> mood1,
                  notes |-> IF Truthy(notes) THEN Strip(notes) ELSE "",
                  timestamp |-> StampOf(now),
                  date |-> DateOf(now)]
        saved == Appended(entries, entry)
    IN
    IF IsBlank(mood)
    THEN Returns(Text(op, "Please tell me how you're feeling. Options: {VALID_MOODS}", <<>>))
    ELSE IF ~InList(mood1, VALID_MOODS)
    THEN Returns(Text(op, "I don't recognize '{mood}'. Try one of: {VALID_MOODS}",
                      [mood |-> mood1]))
    ELSE IF LoadRaises(fs[MOOD_FILE])
    THEN Returns(Raised(op, "UnicodeDecodeError"))
    ELSE /\ Room
         /\ SaveFile(MOOD_FILE, saved)
         /\ ret' = Text(op, "Mood logged: {mood} ({timestamp})",
                        [mood |-> mood1, timestamp |-> entry.timestamp,
                         streak |-> DatesLogged(saved)])
         /\ UNCHANGED <<now, codec, calls>>

RECURSIVE SumWords(_, _)
SumWords(list, k) ==
    IF k > Len(list) THEN 0 ELSE list[k].word_count + SumWords(list, k + 1)

journal_entry(entry, get_prompt) ==
    LET op == "journal_entry"
        entries == LoadList(fs[JOURNAL_FILE])
        journal == [entry |-> Strip(entry),
                    timestamp |-> StampOf(now),
                    date |-> DateOf(now),
                    word_count |-> WordCount(Strip(entry))]
        saved == Appended(entries, journal)
    IN
    IF get_prompt \/ IsBlank(entry)
    THEN Returns(Text(op, "**Journal Prompt:**", <<>>))
    ELSE IF LoadRaises(fs[JOURNAL_FILE])
    THEN Returns(Raised(op, "UnicodeDecodeError"))
    ELSE /\ Room
         /\ SaveFile(JOURNAL_FILE, saved)
         /\ ret' = Text(op, "Journal entry saved! ({timestamp})",
                        [timestamp |-> journal.timestamp, words |-> journal.word_count,
                         total |-> Len(saved), total_words |-> SumWords(saved, 1)])
         /\ UNCHANGED <<now, codec, calls>>

(***************************************************************************)
(* json.dump(data, f, indent=2, ensure_ascii=False) and json.load(f), on   *)
(* the text of a file, character by character.  A JSON value is tagged by  *)
(* its Python type; a float is counted in thousandths and holds two        *)
(* decimals, as round(x, 2) leaves it; an object keeps its members in      *)
(* insertion order.                                                        *)
(***************************************************************************)
JInt(n) == [t |-> "int", v |-> n]
JFloat(milli) == [t |-> "float", v |-> milli]
JStr(s) == [t |-> "str", v |-> s]
JBool(b) == [t |-> "bool", v |-> b]
JList(items) == [t |-> "list", v |-> items]
JObj(members) == [t |-> "obj", v |-> members]
Member(key, value) == [k |-> key, val |-> value]

DigitChars == "0123456789"
DigitOf(c) == CHOOSE d \in 0..9 : SubSeq(DigitChars, d + 1, d + 1) = c
IsDigit(c) == \E d \in 0..9 : SubSeq(DigitChars, d + 1, d + 1) = c

RECURSIVE Digits(_)
Digits(n) ==
    IF n < 10 THEN SubSeq(DigitChars, n + 1, n + 1)
    ELSE Digits(n \div 10) \o SubSeq(DigitChars, (n % 10) + 1, (n % 10) + 1)

\* repr() of a float with at most two decimals: 1.0, 12.5, 0.05
FloatText(milli) ==
    LET cents == (milli % Milli) \div 10
    IN  Digits(milli \div Milli) \o "." \o
        (IF cents % 10 = 0 THEN Digits(cents \div 10)
         ELSE Digits(cents \div 10) \o Digits(cents % 10))

\* The encoder's escapes; with ensure_ascii=False every other character is
\* written as it is.
EscapeNone(c) == c

EscapeCh(c) ==
    CASE c = "\"" -> "\\\""
      [] c = "\\" -> "\\\\"
      [] c = "\n" -> "\\n"
      [] c = "\t" -> "\\t"
      [] OTHER -> c

RECURSIVE Escape(_)
Escape(s) ==
    IF Len(s) = 0 THEN ""
    ELSE EscapeCh(SubSeq(s, 1, 1)) \o Escape(SubSeq(s, 2, Len(s)))

QuotedText(s) == "\"" \o Escape(s) \o "\""

RECURSIVE Indent(_)
Indent(level) == IF level = 0 THEN "" ELSE "  " \o Indent(level - 1)

RECURSIVE DumpValue(_, _), DumpItems(_, _, _), DumpMembers(_, _, _)
DumpValue(value, level) ==
    CASE value.t = "int" -> Digits(value.v)
      [] value.t = "float" -> FloatText(value.v)
      [] value.t = "str" -> QuotedText(value.v)
      [] value.t = "bool" -> (IF value.v THEN "true" ELSE "false")
      [] value.t = "list" ->
            IF Len(value.v) = 0 THEN "[]"
            ELSE "[\n" \o DumpItems(value.v, 1, level + 1) \o "\n" \o Indent(level) \o "]"
      [] value.t = "obj" ->
            IF Len(value.v) = 0 THEN "{}"
            ELSE "{\n" \o DumpMembers(value.v, 1, level + 1) \o "\n" \o Indent(level) \o "}"

DumpItems(items, k, level) ==
    Indent(level) \o DumpValue(items[k], level)
    \o (IF k = Len(items) THEN "" ELSE ",\n" \o DumpItems(items, k + 1, level))

DumpMembers(members, k, level) ==
    Indent(level) \o QuotedText(members[k].k) \o ": " \o DumpValue(members[k].val, level)
    \o (IF k = Len(members) THEN "" ELSE ",\n" \o DumpMembers(members, k + 1, level))

\* json.dump(data, f, indent=2, ensure_ascii=False)
JsonDump(value) == DumpValue(value, 0)

\* What a parser returns: the value read and the text after it, or no value.
Parsed(value, rest) == [ok |-> TRUE, val |-> value, rest |-> rest]
NoParse == [ok |-> FALSE, val |-> JInt(0), rest |-> ""]

First(s) == SubSeq(s, 1, 1)
Rest(s) == SubSeq(s, 2, Len(s))
StartsWith(s, prefix) == Len(s) >= Len(prefix) /\ SubSeq(s, 1, Len(prefix)) = prefix
Drop(s, n) == SubSeq(s, n + 1, Len(s))

IsJsonSpace(c) == c \in {" ", "\t", "\n", "\r"}

RECURSIVE SkipSpace(_)
SkipSpace(s) == IF Len(s) > 0 /\ IsJsonSpace(First(s)) THEN SkipSpace(Rest(s)) ELSE s

\* The characters of a string up to its closing quote; s follows the
\* opening quote.  A raw control character is rejected (strict mode).
RECURSIVE ParseChars(_, _)
ParseChars(s, acc) ==
    IF Len(s) = 0 THEN NoParse
    ELSE LET c == First(s) IN
         IF c = "\"" THEN Parsed(JStr(acc), Rest(s))
         ELSE IF c \in {"\n", "\t"} THEN NoParse
         ELSE IF c = "\\"
         THEN IF Len(s) < 2 THEN NoParse
              ELSE LET e == SubSeq(s, 2, 2) IN
                   CASE e = "\"" -> ParseChars(Drop(s, 2), acc \o "\"")
                     [] e = "\\" -> ParseChars(Drop(s, 2), acc \o "\\")
                     [] e = "n" -> ParseChars(Drop(s, 2), acc \o "\n")
                     [] e = "t" -> ParseChars(Drop(s, 2), acc \o "\t")
                     [] OTHER -> NoParse
         ELSE ParseChars(Rest(s), acc \o c)

\* The digits at the head of s: <<their value, how many they are>>
RECURSIVE ParseDigits(_, _, _)
ParseDigits(s, value, count) ==
    IF Len(s) > 0 /\ IsDigit(First(s))
    THEN ParseDigits(Rest(s), 10 * value + DigitOf(First(s)), count + 1)
    ELSE <<value, count>>

\* digits[.digits]: an int, or a float of up to two decimals
ParseNumber(s) ==
    LET whole == ParseDigits(s, 0, 0)
        after == Drop(s, whole[2])
    IN  IF whole[2] = 0 THEN NoParse
        ELSE IF Len(after) > 0 /\ First(after) = "."
        THEN LET frac == ParseDigits(Rest(after), 0, 0)
             IN  IF frac[2] = 0 \/ frac[2] > 2 THEN NoParse
                 ELSE Parsed(JFloat(whole[1] * Milli
                                    + (IF frac[2] = 1 THEN 100 * frac[1] ELSE 10 * frac[1])),
                             Drop(after, frac[2] + 1))
        ELSE Parsed(JInt(whole[1]), after)

RECURSIVE ParseValue(_), ParseItems(_, _), ParseMembers(_, _)
ParseValue(text) ==
    LET s == SkipSpace(text) IN
    IF Len(s) = 0 THEN NoParse
    ELSE IF First(s) = "\"" THEN ParseChars(Rest(s), "")
    ELSE IF IsDigit(First(s)) THEN ParseNumber(s)
    ELSE IF StartsWith(s, "true") THEN Parsed(JBool(TRUE), Drop(s, 4))
    ELSE IF StartsWith(s, "false") THEN Parsed(JBool(FALSE), Drop(s, 5))
    ELSE IF First(s) = "["
    THEN (IF StartsWith(SkipSpace(Rest(s)), "]")
          THEN Parsed(JList(<<>>), Rest(SkipSpace(Rest(s))))
          ELSE ParseItems(Rest(s), <<>>))
    ELSE IF First(s) = "{"
    THEN (IF StartsWith(SkipSpace(Rest(s)), "}")
          THEN Parsed(JObj(<<>>), Rest(SkipSpace(Rest(s))))
          ELSE ParseMembers(Rest(s), <<>>))
    ELSE NoParse

\* value {, value} ]
ParseItems(text, acc) ==
    LET item == ParseValue(text) IN
    IF ~item.ok THEN NoParse
    ELSE LET s == SkipSpace(item.rest) IN
         IF StartsWith(s, ",") THEN ParseItems(Rest(s), Append(acc, item.val))
         ELSE IF StartsWith(s, "]") THEN Parsed(JList(Append(acc, item.val)), Rest(s))
         ELSE NoParse

\* "key": value {, "key": value} }
ParseMembers(text, acc) ==
    LET s0 == SkipSpace(text) IN
    IF ~StartsWith(s0, "\"") THEN NoParse
    ELSE LET key == ParseChars(Rest(s0), "") IN
    IF ~key.ok THEN NoParse
    ELSE LET s1 == SkipSpace(key.rest) IN
    IF ~StartsWith(s1, ":") THEN NoParse
    ELSE LET value == ParseValue(Rest(s1)) IN
    IF ~value.ok THEN NoParse
    ELSE LET s2 == SkipSpace(value.rest)
             members == Append(acc, Member(key.val.v, value.val))
         IN
         IF StartsWith(s2, ",") THEN ParseMembers(Rest(s2), members)
         ELSE IF StartsWith(s2, "}") THEN Parsed(JObj(members), Rest(s2))
         ELSE NoParse

\* json.load(f): one value and nothing but whitespace after it, else
\* JSONDecodeError
JsonLoad(text) ==
    LET r == ParseValue(text) IN
    IF r.ok /\ Len(SkipSpace(r.rest)) = 0 THEN r ELSE NoParse

(***************************************************************************)
(* Time passes between tool calls.                                         *)
(***************************************************************************)
Tick ==
    /\ now < MaxNow
    /\ now' = now + 1
    /\ UNCHANGED <<fs, ret, codec, calls>>

CodecIdle == [stage |-> "idle"]

\* The callers whose tool calls may overlap, and a caller with no call in
\* flight.
Callers == {"A", "B"}
Idle == [pc |-> "idle"]
NoCalls == [c \in Callers |-> Idle]

AllAbsent == [n \in FileNames |-> Absent]

\* The data directory at the start: no file yet, or one file that an
\* interrupted write left cut short.
DamagedOne(names) ==
    {[AllAbsent EXCEPT ![n] = d] : n \in names, d \in {Malformed, Undecodable}}

(***************************************************************************)
(* The application tracker alone.                                          *)
(***************************************************************************)
AddApplicationArgs ==
    {<<"", "SWE", "", "">>, <<" ", "SWE", "", "">>, <<"Meta", "", "", "">>,
     <<"Meta", " \t", "", "">>, <<" Meta ", " SWE", "", " ref ">>,
     <<"Meta", "SWE", " Offer ", "">>, <<"Meta", "SWE", "bogus", "">>,
     <<"Meta", "SWE", " ", "">>}
UpdateApplicationArgs ==
    {<<IntArg(1), " Offer", "">>, <<IntArg(2), "applied", " call ">>,
     <<FloatArg(1500), "offer", " ">>, <<IntArg(0), "offer", "">>,
     <<StrArg, "offer", "">>, <<IntArg(1), "bogus", "">>, <<IntArg(9), "", "">>,
     <<IntArg(9), "offer", "">>}
ListApplicationsArgs == {"", " ", " OFFER ", "applied", "bogus"}

InitApps ==
    /\ fs \in {AllAbsent} \cup DamagedOne({TRACKER_FILE})
    /\ now = 0
    /\ ret = NoRet
    /\ codec = CodecIdle
    /\ calls = NoCalls

NextApps ==
    \/ Tick
    \/ \E a \in AddApplicationArgs : add_application(a[1], a[2], a[3], a[4])
    \/ \E a \in UpdateApplicationArgs : update_application(a[1], a[2], a[3])
    \/ \E a \in ListApplicationsArgs : list_applications(a)

SpecApps == InitApps /\ [][NextApps]_vars

(***************************************************************************)
(* All the tools that write a list collection, called in any order within  *)
(* one tick of the clock.                                                  *)
(***************************************************************************)
AddApplicationFew == {<<" Meta ", "SWE", "", "">>}
UpdateApplicationFew == {<<IntArg(1), "Offer", "">>, <<IntArg(2), "offer", "">>}
AddTaskArgs == {<<" cv ", "", "">>}
TaskIdArgs == {IntArg(1), IntArg(2)}
SetWeeklyGoalArgs == {<<"apply", " Career ">>}
GoalIdArgs == {IntArg(1), IntArg(2)}
AddExpenseArgs == {<<FloatArg(1004), " Food ", "">>}
AddIncomeArgs == {<<IntArg(2), "bogus", "">>}
SetSavingsGoalArgs == {<<" Laptop ", IntArg(2), "">>}
AddToSavingsArgs == {<<IntArg(1), IntArg(1)>>, <<IntArg(2), IntArg(1)>>}
LogMoodArgs == {<<" Good ", "">>}
JournalEntryArgs == {<<" two words ", FALSE>>}

Init ==
    /\ fs \in {AllAbsent} \cup DamagedOne({TRACKER_FILE, TODOS_FILE, SAVINGS_FILE, MOOD_FILE})
    /\ now = 0
    /\ ret = NoRet
    /\ codec = CodecIdle
    /\ calls = NoCalls

Next ==
    \/ \E a \in AddApplicationFew : add_application(a[1], a[2], a[3], a[4])
    \/ \E a \in UpdateApplicationFew : update_application(a[1], a[2], a[3])
    \/ \E a \in AddTaskArgs : add_task(a[1], a[2], a[3])
    \/ \E a \in TaskIdArgs : complete_task(a)
    \/ \E a \in SetWeeklyGoalArgs : set_weekly_goal(a[1], a[2])
    \/ \E a \in GoalIdArgs : complete_goal(a)
    \/ \E a \in AddExpenseArgs : add_expense(a[1], a[2], a[3])
    \/ \E a \in AddIncomeArgs : add_income(a[1], a[2], a[3])
    \/ \E a \in SetSavingsGoalArgs : set_savings_goal(a[1], a[2], a[3])
    \/ \E a \in AddToSavingsArgs : add_to_savings(a[1], a[2])
    \/ \E a \in LogMoodArgs : log_mood(a[1], a[2])
    \/ \E a \in JournalEntryArgs : journal_entry(a[1], a[2])

Spec == Init /\ [][Next]_vars

(***************************************************************************)
(* One collection written, read back and written again.                    *)
(***************************************************************************)
\* json.load(f), or [] on JSONDecodeError (application_tracker)
load_applications(text) ==
    LET r == JsonLoad(text) IN IF r.ok THEN r.val ELSE JList(<<>>)

\* data if isinstance(data, list) else [data] if isinstance(data, dict) else []
load_json(text) ==
    LET r == JsonLoad(text) IN
    IF ~r.ok THEN JList(<<>>)
    ELSE IF r.val.t = "list" THEN r.val
    ELSE IF r.val.t = "obj" THEN JList(<<r.val>>)
    ELSE JList(<<>>)

\* data if isinstance(data, dict) else {}
load_json_dict(text) ==
    LET r == JsonLoad(text) IN
    IF r.ok /\ r.val.t = "obj" THEN r.val ELSE JObj(<<>>)

LoadStore(store, text) ==
    CASE store = "applications" -> load_applications(text)
      [] store = "savings" -> load_json(text)
      [] store = "budget" -> load_json_dict(text)

TwoDigits(n) == IF n < 10 THEN "0" \o Digits(n) ELSE Digits(n)

\* strftime("%Y-%m-%d") and strftime("%Y-%m-%d %H:%M") of the model's clock
DateText(d) == "2026-01-" \o TwoDigits(d + 1)
StampText(m) ==
    DateText(m \div MinutesPerDay) \o " 09:" \o TwoDigits(m % MinutesPerDay)

\* The records as json.dump receives them: dicts in insertion order.
ApplicationJson(app) ==
    JObj(<<Member("id", JInt(app.id)),
           Member("company", JStr(app.company)),
           Member("role", JStr(app.role)),
           Member("status", JStr(app.status)),
           Member("notes", JStr(app.notes)),
           Member("applied_date", JStr(DateText(app.applied_date))),
           Member("last_updated", JStr(StampText(app.last_updated)))>>)

DepositJson(deposit) ==
    JObj(<<Member("amount", JFloat(deposit.amount)),
           Member("date", JStr(DateText(deposit.date)))>>)

SavingsJson(goal) ==
    JObj(<<Member("id", JInt(goal.id)),
           Member("name", JStr(goal.name)),
           Member("target", JFloat(goal.target)),
           Member("saved", IF Len(goal.deposits) = 0 THEN JInt(0) ELSE JFloat(goal.saved)),
           Member("deadline", JStr(goal.deadline)),
           Member("deposits", JList([k \in 1..Len(goal.deposits) |->
                                        DepositJson(goal.deposits[k])])),
           Member("created", JStr(DateText(goal.created)))>>)

BudgetJson(total, food) ==
    JObj(<<Member("monthly_total", JFloat(total)),
           Member("categories",
                  IF food = 0 THEN JObj(<<>>) ELSE JObj(<<Member("food", JFloat(food))>>)),
           Member("set_date", JStr(DateText(0)))>>)

\* Text a user can type into a field, quotes, backslashes and line breaks
\* included.
CodecStrings ==
    {"Meta", "Caf\"e", "a\\b", "two\nlines", "tab\there", "[1, 2]", "x\": 1, \"y", ""}
CodecAmounts == {50, 1000, 12500, 120340}

SeqsUpTo(S, n) == UNION {[1..k -> S] : k \in 0..n}

CodecApplications ==
    {JList([k \in 1..Len(names) |->
              ApplicationJson([id |-> k, company |-> names[k], role |-> "SWE",
                               status |-> "applied", notes |-> names[k],
                               applied_date |-> 0, last_updated |-> k])])
       : names \in SeqsUpTo(CodecStrings, MaxRecords)}

CodecSavings ==
    {JList(<<SavingsJson([id |-> 1, name |-> "Laptop", target |-> target,
                          saved |-> Len(amounts) * 1010, deadline |-> "",
                          deposits |-> [k \in 1..Len(amounts) |->
                                           [amount |-> amounts[k], date |-> 0]],
                          created |-> 0])>>)
       : target \in CodecAmounts, amounts \in SeqsUpTo({50, 12500}, MaxDeposits)}

CodecBudgets == {JObj(<<>>)} \cup {BudgetJson(t, f) : t \in CodecAmounts, f \in {0, 50}}

CodecDocs ==
    {[store |-> "applications", doc |-> d] : d \in CodecApplications}
    \cup {[store |-> "savings", doc |-> d] : d \in CodecSavings}
    \cup {[store |-> "budget", doc |-> d] : d \in CodecBudgets}

\* _save_applications / _save_json: the file now holds the dump of the data
save_json ==
    /\ codec.stage \in {"memory", "loaded"}
    /\ codec' = [codec EXCEPT
                    !.stage = IF codec.stage = "memory" THEN "saved" ELSE "resaved",
                    !.text = JsonDump(codec.data),
                    !.first = codec.text]
    /\ UNCHANGED <<fs, now, ret, calls>>

\* _load_applications / _load_json / _load_json_dict: the data are what the
\* file's text parses to
load_json_file ==
    /\ codec.stage = "saved"
    /\ codec' = [codec EXCEPT !.stage = "loaded",
                              !.data = LoadStore(codec.store, codec.text)]
    /\ UNCHANGED <<fs, now, ret, calls>>

InitCodec ==
    /\ fs = AllAbsent
    /\ now = 0
    /\ ret = NoRet
    /\ codec \in {[stage |-> "memory", store |-> d.store, orig |-> d.doc, data |-> d.doc,
                   text |-> "", first |-> ""] : d \in CodecDocs}
    /\ calls = NoCalls

NextCodec == save_json \/ load_json_file

SpecCodec == InitCodec /\ [][NextCodec]_vars

(***************************************************************************)
(* C4: saving a collection, loading it and saving it again leaves the      *)
(* file's content as the first save wrote it, and the loaded collection    *)
(* is the one that was saved.                                              *)
(***************************************************************************)
C4_RoundTrip ==
    /\ codec.stage = "loaded" => codec.data = codec.orig
    /\ codec.stage = "resaved" => codec.text = codec.first /\ codec.data = codec.orig

\* A list of two applications whose text fields need escaping has been
\* through save, load and save.
C4_Witness ==
    /\ codec.stage = "resaved"
    /\ codec.store = "applications"
    /\ Len(codec.orig.v) = 2
    /\ Contains(codec.text, "\\\"")
    /\ Contains(codec.text, "\\n")

(***************************************************************************)
(* C1: the ids of the stored applications are 1, 2, 3, ... in the order    *)
(* they were added, starting from a collection with no records; each       *)
(* successful add_application appends one record whose id is the number    *)
(* of records before it plus one, and its confirmation carries that id     *)
(* and the record's company and role.                                      *)
(***************************************************************************)
C1_SequentialIds ==
    /\ [](\A i \in 1..Len(LoadList(fs[TRACKER_FILE])) :
             LoadList(fs[TRACKER_FILE])[i].id = i)
    /\ [][\A a \in AddApplicationArgs :
             (/\ ret'.msg = "Application #{id} added!"
              /\ add_application(a[1], a[2], a[3], a[4]))
             => LET before == LoadList(fs[TRACKER_FILE])
                    after == LoadList(fs'[TRACKER_FILE])
                    n == Len(before) + 1
                IN  /\ Len(after) = n
                    /\ \A i \in 1..Len(before) : after[i] = before[i]
                    /\ after[n].id = n
                    /\ after[n].company = Strip(a[1])
                    /\ after[n].role = Strip(a[2])
                    /\ ret'.v.id = n
                    /\ ret'.v.company = Strip(a[1])
                    /\ ret'.v.role = Strip(a[2])]_vars

\* The second application has just been added and confirmed as #2.
C1_Witness ==
    /\ ret.op = "add_application"
    /\ ret.msg = "Application #{id} added!"
    /\ ret.v.id = 2
    /\ Len(LoadList(fs[TRACKER_FILE])) = 2

(***************************************************************************)
(* C2: within each collection whose records carry an id (applications,     *)
(* tasks, goals, expenses, income, savings goals), no two stored records   *)
(* have the same id, whatever tools have been called.                      *)
(***************************************************************************)
C2_UniqueIds ==
    \A n \in {TRACKER_FILE, TODOS_FILE, GOALS_FILE, EXPENSES_FILE, INCOME_FILE, SAVINGS_FILE} :
        \A i, j \in 1..Len(LoadList(fs[n])) :
            i # j => LoadList(fs[n])[i].id # LoadList(fs[n])[j].id

\* Two savings goals are stored and a deposit has just been made to one.
C2_Witness ==
    /\ Len(LoadList(fs[SAVINGS_FILE])) = 2
    /\ ret.op = "add_to_savings"
    /\ ret.msg = "Added Rs.{amount} to '{name}'!"

C5_LoadFallsBackToEmpty ==
    [][/\ \A a \in AddApplicationFew :
             (ret'.op = "add_application" /\ fs[TRACKER_FILE].kind # "json" /\ add_application(a[1], a[2], a[3], a[4]))
             => /\ ret'.kind = "text"
                /\ Len(LoadList(fs'[TRACKER_FILE])) = 1
                /\ LoadList(fs'[TRACKER_FILE])[1].id = 1
       /\ \A a \in AddTaskArgs :
             (ret'.op = "add_task" /\ fs[TODOS_FILE].kind # "json" /\ add_task(a[1], a[2], a[3]))
             => /\ ret'.kind = "text"
                /\ Len(LoadList(fs'[TODOS_FILE])) = 1
                /\ LoadList(fs'[TODOS_FILE])[1].id = 1
       /\ \A a \in SetSavingsGoalArgs :
             (ret'.op = "set_savings_goal" /\ fs[SAVINGS_FILE].kind # "json"
              /\ set_savings_goal(a[1], a[2], a[3]))
             => /\ ret'.kind = "text"
                /\ Len(LoadList(fs'[SAVINGS_FILE])) = 1
                /\ LoadList(fs'[SAVINGS_FILE])[1].id = 1
       /\ \A a \in LogMoodArgs :
             (ret'.op = "log_mood" /\ fs[MOOD_FILE].kind # "json" /\ log_mood(a[1], a[2]))
             => /\ ret'.kind = "text"
                /\ Len(LoadList(fs'[MOOD_FILE])) = 1]_vars

(***************************************************************************)
(* C6: add_application with a company or a role that is empty or only      *)
(* whitespace returns a text containing "Error" and leaves every file as   *)
(* it was.                                                                 *)
(***************************************************************************)
C6_BlankRejected ==
    [][\A a \in AddApplicationArgs :
          (/\ ret'.op = "add_application"
           /\ \/ \A i \in 1..Len(a[1]) : IsSpace(SubSeq(a[1], i, i))
              \/ \A i \in 1..Len(a[2]) : IsSpace(SubSeq(a[2], i, i))
           /\ add_application(a[1], a[2], a[3], a[4]))
          => /\ ret'.kind = "text"
             /\ Contains(ret'.msg, "Error")
             /\ fs' = fs]_vars

\* A whitespace-only role has just been refused while an application is
\* stored.
C6_Witness ==
    /\ ret.op = "add_application"
    /\ ret.msg = "Error: Role/position is required."
    /\ Len(LoadList(fs[TRACKER_FILE])) >= 1

C8_LastUpdatedLater ==
    [][\A a \in UpdateApplicationArgs :
          (/\ ret'.msg = "Application #{id} updated!"
           /\ update_application(a[1], a[2], a[3]))
          => LET before == LoadList(fs[TRACKER_FILE])
                 after == LoadList(fs'[TRACKER_FILE])
                 i == CHOOSE k \in 1..Len(before) : before[k].id = IntOf(a[1])
             IN  /\ after[i].status = Lower(Strip(a[2]))
                 /\ after[i].last_updated > before[i].last_updated
                 /\ ret'.v.old_status = before[i].status
                 /\ ret'.v.status = after[i].status]_vars

(***************************************************************************)
(* C8, amended: after update_application with a valid status and the id    *)
(* of a stored application, the record's status is the new status, its     *)
(* last_updated is the time of the call to the minute (later than before   *)
(* when the call falls in a later minute than the previous change, equal   *)
(* to it when both fall in the same minute), and the confirmation shows    *)
(* the old and the new status.                                             *)
(***************************************************************************)
C8_LastUpdatedToTheMinute ==
    [][\A a \in UpdateApplicationArgs :
          (/\ ret'.msg = "Application #{id} updated!"
           /\ update_application(a[1], a[2], a[3]))
          => LET before == LoadList(fs[TRACKER_FILE])
                 after == LoadList(fs'[TRACKER_FILE])
                 i == CHOOSE k \in 1..Len(before) : before[k].id = IntOf(a[1])
             IN  /\ after[i].status = Lower(Strip(a[2]))
                 /\ after[i].last_updated = now \div TicksPerMinute
                 /\ after[i].last_updated >= before[i].last_updated
                 /\ \A k \in 1..Len(before) : k # i => after[k] = before[k]
                 /\ ret'.v.old_status = before[i].status
                 /\ ret'.v.status = after[i].status]_vars

\* An application added in the first minute has been moved to "offer" in
\* a later minute.
C8_Witness ==
    /\ ret.op = "update_application"
    /\ ret.msg = "Application #{id} updated!"
    /\ ret.v.old_status = "applied"
    /\ ret.v.status = "offer"
    /\ LET apps == LoadList(fs[TRACKER_FILE])
       IN  /\ apps[ret.v.id].status = "offer"
           /\ apps[ret.v.id].last_updated >= 1
           /\ apps[ret.v.id].applied_date = 0

(***************************************************************************)
(* C9: list_applications with a filter that is not blank and, trimmed and  *)
(* lower-cased, is none of the seven valid statuses returns an error text, *)
(* also when nothing is stored; with a valid filter it lists exactly the   *)
(* stored applications whose status is the filter, and the count in the    *)
(* header and in the summary is their number.                              *)
(***************************************************************************)
C9_FilteredListing ==
    [][\A f \in ListApplicationsArgs :
          (ret'.op = "list_applications" /\ list_applications(f))
          => LET key == Lower(Strip(f))
                 valid == \E k \in 1..Len(VALID_STATUSES) : key = VALID_STATUSES[k]
                 matches == SelectSeq(LoadList(fs[TRACKER_FILE]),
                                      LAMBDA app : app.status = key)
             IN  IF key = "" THEN TRUE
                 ELSE IF ~valid
                 THEN ret'.kind = "text" /\ Contains(ret'.msg, "Error")
                 ELSE /\ ret'.kind = "text"
                      /\ IF Len(matches) = 0
                         THEN Contains(ret'.msg, "No applications")
                         ELSE /\ ret'.msg = "Job Applications ({total} total):"
                              /\ ret'.v.total = Len(matches)
                              /\ ret'.v.summary.total = Len(matches)
                              /\ Len(ret'.v.groups) = 1
                              /\ ret'.v.groups[1].count = Len(matches)
                              /\ ret'.v.groups[1].rows = Rows(matches)]_vars

(***************************************************************************)
(* C10: update_application, complete_task, complete_goal and               *)
(* add_to_savings, called with a number as id that is the id of no stored  *)
(* record, return a "not found" error and write nothing.                   *)
(***************************************************************************)
C10_NotFound ==
    [][/\ \A a \in UpdateApplicationFew :
             (/\ ret'.op = "update_application"
              /\ FindId(LoadList(fs[TRACKER_FILE]), IntOf(a[1])) = 0
              /\ update_application(a[1], a[2], a[3]))
             => ret'.kind = "text" /\ Contains(ret'.msg, "not found") /\ fs' = fs
       /\ \A a \in TaskIdArgs :
             (/\ ret'.op = "complete_task"
              /\ FindId(LoadList(fs[TODOS_FILE]), IntOf(a)) = 0
              /\ complete_task(a))
             => ret'.kind = "text" /\ Contains(ret'.msg, "not found") /\ fs' = fs
       /\ \A a \in GoalIdArgs :
             (/\ ret'.op = "complete_goal"
              /\ FindId(LoadList(fs[GOALS_FILE]), IntOf(a)) = 0
              /\ complete_goal(a))
             => ret'.kind = "text" /\ Contains(ret'.msg, "not found") /\ fs' = fs
       /\ \A a \in AddToSavingsArgs :
             (/\ ret'.op = "add_to_savings"
              /\ FindId(LoadList(fs[SAVINGS_FILE]), IntOf(a[1])) = 0
              /\ add_to_savings(a[1], a[2]))
             => ret'.kind = "text" /\ Contains(ret'.msg, "not found") /\ fs' = fs]_vars

(***************************************************************************)
(* Every writing tool called with arguments a user can get wrong (a blank  *)
(* required field, a value outside an enumeration, an amount that is not   *)
(* positive, an id that is no number or below 1) and with arguments that   *)
(* are right up to case, surrounding whitespace or a fraction.             *)
(***************************************************************************)
AddApplicationBadEnum == {<<"Meta", "SWE", "bogus", "">>}
AddApplicationWrong ==
    {<<" ", "SWE", "", "">>, <<"Meta", "", "", "">>} \cup AddApplicationBadEnum
AddApplicationRight == {<<"Meta", "SWE", " Offer ", "">>}
UpdateApplicationWrong ==
    {<<StrArg, "offer", "">>, <<IntArg(0), "offer", "">>, <<IntArg(1), "bogus", "">>}
UpdateApplicationRight == {<<IntArg(1), "Rejected", "">>, <<FloatArg(1500), "offer", "">>}
AddTaskBadEnum == {<<"cv", "urgent", "">>}
AddTaskWrong == {<<" ", "high", "">>} \cup AddTaskBadEnum
AddTaskRight == {<<"cv", " High", "">>}
RecordIdWrong == {StrArg, IntArg(0)}
RecordIdRight == {IntArg(1), FloatArg(2500)}
SetWeeklyGoalWrong == {<<"", "career">>}
SetWeeklyGoalBadEnum == {<<"apply", "bogus">>}
SetWeeklyGoalVariant == {<<"apply", " Career ">>}
SetWeeklyGoalRight == SetWeeklyGoalVariant \cup SetWeeklyGoalBadEnum
AddExpenseBadEnum == {<<IntArg(1), "gambling", "">>}
AddExpenseWrong ==
    {<<IntArg(0), "food", "">>, <<StrArg, "food", "">>} \cup AddExpenseBadEnum
AddExpenseRight == {<<IntArg(1), " Food ", "">>}
AddIncomeWrong == {<<FloatArg(0 - 1000), "salary", "">>}
AddIncomeBadEnum == {<<IntArg(1), "lottery", "">>}
AddIncomeVariant == {<<IntArg(1), "Salary ", "">>}
AddIncomeRight == AddIncomeVariant \cup AddIncomeBadEnum
SetBudgetWrong == {<<IntArg(0), "">>, <<StrArg, "">>}
SetBudgetRight == {<<IntArg(2), "">>}
SetSavingsGoalWrong == {<<" ", IntArg(2), "">>, <<"Laptop", IntArg(0), "">>}
SetSavingsGoalRight == {<<"Laptop", IntArg(2), "">>}
AddToSavingsWrong == {<<StrArg, IntArg(1)>>, <<IntArg(1), IntArg(0)>>}
AddToSavingsRight == {<<IntArg(1), IntArg(1)>>, <<FloatArg(1500), IntArg(1)>>}
LogMoodWrong == {<<"", "">>, <<"ecstatic", "">>}
LogMoodRight == {<<" Good ", "">>}

MaxStoredInputs == 1    \* records stored at most while the arguments vary

InitInputs ==
    /\ fs = AllAbsent
    /\ now = 0
    /\ ret = NoRet
    /\ codec = CodecIdle
    /\ calls = NoCalls

NextInputs ==
    /\ \/ \E a \in AddApplicationWrong \cup AddApplicationRight :
             add_application(a[1], a[2], a[3], a[4])
       \/ \E a \in UpdateApplicationWrong \cup UpdateApplicationRight :
             update_application(a[1], a[2], a[3])
       \/ \E a \in AddTaskWrong \cup AddTaskRight : add_task(a[1], a[2], a[3])
       \/ \E a \in RecordIdWrong \cup RecordIdRight : complete_task(a)
       \/ \E a \in SetWeeklyGoalWrong \cup SetWeeklyGoalRight : set_weekly_goal(a[1], a[2])
       \/ \E a \in RecordIdWrong \cup RecordIdRight : complete_goal(a)
       \/ \E a \in AddExpenseWrong \cup AddExpenseRight : add_expense(a[1], a[2], a[3])
       \/ \E a \in AddIncomeWrong \cup AddIncomeRight : add_income(a[1], a[2], a[3])
       \/ \E a \in SetBudgetWrong \cup SetBudgetRight : set_budget(a[1], a[2])
       \/ \E a \in SetSavingsGoalWrong \cup SetSavingsGoalRight :
             set_savings_goal(a[1], a[2], a[3])
       \/ \E a \in AddToSavingsWrong \cup AddToSavingsRight : add_to_savings(a[1], a[2])
       \/ \E a \in LogMoodWrong \cup LogMoodRight : log_mood(a[1], a[2])
    /\ Stored' <= MaxStoredInputs

SpecInputs == InitInputs /\ [][NextInputs]_vars

\* A step that a call with a wrong argument takes.
WrongCall ==
    \/ ret'.op = "add_application"
       /\ \E a \in AddApplicationWrong : add_application(a[1], a[2], a[3], a[4])
    \/ ret'.op = "update_application"
       /\ \E a \in UpdateApplicationWrong : update_application(a[1], a[2], a[3])
    \/ ret'.op = "add_task" /\ \E a \in AddTaskWrong : add_task(a[1], a[2], a[3])
    \/ ret'.op = "complete_task" /\ \E a \in RecordIdWrong : complete_task(a)
    \/ ret'.op = "set_weekly_goal"
       /\ \E a \in SetWeeklyGoalWrong : set_weekly_goal(a[1], a[2])
    \/ ret'.op = "complete_goal" /\ \E a \in RecordIdWrong : complete_goal(a)
    \/ ret'.op = "add_expense" /\ \E a \in AddExpenseWrong : add_expense(a[1], a[2], a[3])
    \/ ret'.op = "add_income" /\ \E a \in AddIncomeWrong : add_income(a[1], a[2], a[3])
    \/ ret'.op = "set_budget" /\ \E a \in SetBudgetWrong : set_budget(a[1], a[2])
    \/ ret'.op = "set_savings_goal"
       /\ \E a \in SetSavingsGoalWrong : set_savings_goal(a[1], a[2], a[3])
    \/ ret'.op = "add_to_savings"
       /\ \E a \in AddToSavingsWrong : add_to_savings(a[1], a[2])
    \/ ret'.op = "log_mood" /\ \E a \in LogMoodWrong : log_mood(a[1], a[2])

Created(file, field, value) ==
    LET before == LoadList(fs[file])
        after == LoadList(fs'[file])
    IN  /\ Len(after) = Len(before) + 1
        /\ SubSeq(after, 1, Len(before)) = before
        /\ after[Len(after)][field] = value

\* A create call whose enumerated argument is in no allowed set, for the
\* tools that refuse it and for the tools that store it under a default.
RefusedEnum ==
    \/ ret'.op = "add_application"
       /\ \E a \in AddApplicationBadEnum : add_application(a[1], a[2], a[3], a[4])
    \/ ret'.op = "add_task" /\ \E a \in AddTaskBadEnum : add_task(a[1], a[2], a[3])
    \/ ret'.op = "add_expense"
       /\ \E a \in AddExpenseBadEnum : add_expense(a[1], a[2], a[3])

GoalBadEnum ==
    ret'.op = "set_weekly_goal" /\ \E a \in SetWeeklyGoalBadEnum : set_weekly_goal(a[1], a[2])

IncomeBadEnum ==
    ret'.op = "add_income" /\ \E a \in AddIncomeBadEnum : add_income(a[1], a[2], a[3])

\* A create call whose enumerated argument differs from an allowed value by
\* case or surrounding whitespace stores the value trimmed and lower-cased.
VariantStored ==
    /\ (ret'.op = "add_application"
        /\ \E a \in AddApplicationRight : add_application(a[1], a[2], a[3], a[4]))
       => Created(TRACKER_FILE, "status", "offer")
    /\ (ret'.op = "add_task" /\ \E a \in AddTaskRight : add_task(a[1], a[2], a[3]))
       => Created(TODOS_FILE, "priority", "high")
    /\ (ret'.op = "set_weekly_goal"
        /\ \E a \in SetWeeklyGoalVariant : set_weekly_goal(a[1], a[2]))
       => Created(GOALS_FILE, "category", "career")
    /\ (ret'.op = "add_expense"
        /\ \E a \in AddExpenseRight : add_expense(a[1], a[2], a[3]))
       => Created(EXPENSES_FILE, "category", "food")
    /\ (ret'.op = "add_income" /\ \E a \in AddIncomeVariant : add_income(a[1], a[2], a[3]))
       => Created(INCOME_FILE, "source", "salary")

ErrorAndNothingStored ==
    /\ ret'.kind = "text"
    /\ StartsWith(ret'.msg, "Error:")
    /\ fs' = fs

MutatedOnlyExact(file, arg) ==
    LET before == LoadList(fs[file])
        after == LoadList(fs'[file])
    IN  /\ Len(after) = Len(before)
        /\ \A k \in 1..Len(before) :
              after[k] # before[k] => before[k].id * Milli = arg.val

\* C13: update_application, complete_task, complete_goal and add_to_savings
\* change a record only when its stored id equals the id argument; any
\* other numeric id, a non-integer one included, changes no record.  An id
\* of 1.5 is truncated to 1 and changes record 1.
C13_ExactIdOnly ==
    [][/\ \A a \in UpdateApplicationWrong \cup UpdateApplicationRight :
             (ret'.op = "update_application" /\ update_application(a[1], a[2], a[3]))
             => MutatedOnlyExact(TRACKER_FILE, a[1])
       /\ \A a \in RecordIdWrong \cup RecordIdRight :
             /\ (ret'.op = "complete_task" /\ complete_task(a))
                => MutatedOnlyExact(TODOS_FILE, a)
             /\ (ret'.op = "complete_goal" /\ complete_goal(a))
                => MutatedOnlyExact(GOALS_FILE, a)
       /\ \A a \in AddToSavingsWrong \cup AddToSavingsRight :
             (ret'.op = "add_to_savings" /\ add_to_savings(a[1], a[2]))
             => MutatedOnlyExact(SAVINGS_FILE, a[1])]_vars

(***************************************************************************)
(* Habits tracked and viewed over several days.                            *)
(***************************************************************************)
MaxDay == 2             \* the last day the clock reaches

\* Midnight passes.
NextDay ==
    /\ DateOf(now) < MaxDay
    /\ now' = (DateOf(now) + 1) * TicksPerDay
    /\ UNCHANGED <<fs, ret, codec, calls>>

TrackHabitArgs == {<<"run", TRUE>>, <<" Run ", FALSE>>, <<"read", TRUE>>, <<"", TRUE>>}

InitHabits ==
    /\ fs = AllAbsent
    /\ now = 0
    /\ ret = NoRet
    /\ codec = CodecIdle
    /\ calls = NoCalls

NextHabits ==
    \/ NextDay
    \/ \E a \in TrackHabitArgs : track_habit(a[1], a[2])
    \/ view_habits

SpecHabits == InitHabits /\ [][NextHabits]_vars

\* The habit has an entry of that day and the entry says completed.
DoneOn(entries, day) ==
    \E k \in 1..Len(entries) : entries[k].date = day /\ entries[k].completed

\* The number N of consecutive completed days that end today.
RunLength(entries, today) ==
    CHOOSE n \in 0..(today + 1) :
        /\ \A day \in (today - n + 1)..today : DoneOn(entries, day)
        /\ n <= today => ~DoneOn(entries, today - n)

HabitsUnique ==
    LET habits == LoadList(fs[HABITS_FILE])
    IN  /\ \A i, j \in 1..Len(habits) : habits[i].name = habits[j].name => i = j
        /\ \A h \in 1..Len(habits) :
              \A i, j \in 1..Len(habits[h].entries) :
                  habits[h].entries[i].date = habits[h].entries[j].date => i = j

\* C15: under any sequence of track_habit calls across days, habit names
\* are unique and a habit has at most one entry per date; tracking a habit
\* again on the same date overwrites that date's flag and adds no entry.
C15_OneEntryPerDate ==
    [][/\ HabitsUnique'
       /\ \A a \in TrackHabitArgs :
             LET before == LoadList(fs[HABITS_FILE])
                 after == LoadList(fs'[HABITS_FILE])
                 h == HabitIndex(before, Lower(Strip(a[1])))
             IN  (/\ ret'.op = "track_habit"
                  /\ ret'.v # <<>>
                  /\ ret'.v.status = (IF a[2] THEN "Done" ELSE "Skipped")
                  /\ track_habit(a[1], a[2])
                  /\ h # 0
                  /\ \E k \in 1..Len(before[h].entries) :
                        before[h].entries[k].date = DateOf(now))
                 => /\ Len(after) = Len(before)
                    /\ Len(after[h].entries) = Len(before[h].entries)
                    /\ \A k \in 1..Len(before[h].entries) :
                          /\ after[h].entries[k].date = before[h].entries[k].date
                          /\ after[h].entries[k].completed =
                                IF before[h].entries[k].date = DateOf(now)
                                THEN a[2]
                                ELSE before[h].entries[k].completed
                    /\ \A g \in 1..Len(before) : g # h => after[g] = before[g]]_vars

\* Two habits are stored and the one just tracked as skipped was completed
\* on an earlier day: its entry of today is its second.
C15_Witness ==
    /\ ret.op = "track_habit"
    /\ ret.v # <<>>
    /\ ret.v.status = "Skipped"
    /\ ret.v.total_days = 2
    /\ ret.v.total_done = 1
    /\ Len(LoadList(fs[HABITS_FILE])) = 2


(***************************************************************************)
(* A budget, expenses and a savings goal over several days, with amounts   *)
(* that land on the 80% mark and just short of the target.                 *)
(***************************************************************************)
SetBudgetAmounts == {FloatArg(350), IntArg(1)}

AddExpenseAmounts == {FloatArg(280), FloatArg(70), FloatArg(810)}

SavingsTargets == {IntArg(2), FloatArg(4)}

DepositAmounts == {IntArg(1), FloatArg(990), FloatArg(1990)}

InitMoney ==
    /\ fs = AllAbsent
    /\ now = 0
    /\ ret = NoRet
    /\ codec = CodecIdle
    /\ calls = NoCalls

NextMoney ==
    \/ NextDay
    \/ \E a \in SetBudgetAmounts : set_budget(a, "")
    \/ \E a \in AddExpenseAmounts : add_expense(a, "food", "")
    \/ \E a \in SavingsTargets : set_savings_goal("Laptop", a, "")
    \/ \E a \in DepositAmounts : add_to_savings(IntArg(1), a)

SpecMoney == InitMoney /\ [][NextMoney]_vars

\* The call that just returned was an add_to_savings that stored a deposit.
Deposited == /\ ret'.op = "add_to_savings"
             /\ fs'[SAVINGS_FILE] # fs[SAVINGS_FILE]

\* C16: add_to_savings reports GOAL REACHED if and only if the goal's saved
\* amount after the deposit is at least its target, for every target and
\* every sequence of positive deposits; with saved equal to half the target
\* it reports 50%.
C16_GoalReachedIff ==
    [][Deposited =>
          LET before == LoadList(fs[SAVINGS_FILE])
              after == LoadList(fs'[SAVINGS_FILE])
              reported == ret'.kind = "text" /\ ret'.v.goal_reached
          IN  \A i \in 1..Len(after) :
                 after[i] # before[i] =>
                    /\ reported <=> after[i].saved >= after[i].target
                    /\ 2 * after[i].saved = after[i].target
                          => ret'.kind = "text" /\ ret'.v.pct = 50]_vars

\* The call that just returned was an add_expense that stored an expense.
Logged == /\ ret'.op = "add_expense"
          /\ ret'.kind = "text"
          /\ fs'[EXPENSES_FILE] # fs[EXPENSES_FILE]

\* The month's expenses stored now are more than 80% of the budget.
OverEighty ==
    LET budget == LoadDict(fs[BUDGET_FILE])
        month == InMonth(LoadList(fs[EXPENSES_FILE]), MonthOf(DateOf(now)))
    IN  /\ budget # <<>>
        /\ budget.monthly_total > 0
        /\ 10 * SumAmounts(month) > 8 * budget.monthly_total

\* C17: add_expense returns a WARNING exactly when a budget is set and the
\* current month's expenses, the one just logged included, exceed 80% of
\* monthly_total; at or below 80%, or with no budget, there is no warning.
C17_WarningIffOverEighty ==
    [][Logged => (ret'.v.warning <=> OverEighty')]_vars


(***************************************************************************)
(* add_application taken step by step, for callers whose calls overlap     *)
(* and for a process that dies while a file is being written.  A call      *)
(* loads the collection, then opens the file for writing (which empties    *)
(* it), then writes the document and returns.                              *)
(***************************************************************************)

\* The characters of the inputs that UTF-8 encodes in more than one byte.
MultiByteChars == {"é"}

HasMultiByte(s) == \E k \in 1..Len(s) : SubSeq(s, k, k) \in MultiByteChars

\* json.dump(..., ensure_ascii=False) writes such a character as it is.
MultiByteDoc(apps) ==
    \E k \in 1..Len(apps) :
        \/ HasMultiByte(apps[k].company)
        \/ HasMultiByte(apps[k].role)
        \/ HasMultiByte(apps[k].notes)

\* What a write that stopped part-way leaves on disk: a proper prefix of
\* the document, which is no JSON value; the prefix is no UTF-8 text either
\* when it ends inside a character of several bytes.
CutFiles(apps) == {Malformed} \cup (IF MultiByteDoc(apps) THEN {Undecodable} ELSE {})

\* The validation of add_application and apps = _load_applications()
add_application_load(c, company, role, status, notes) ==
    LET op == "add_application"
        status1 == IF Truthy(status) THEN Lower(Strip(status)) ELSE "applied"
    IN
    /\ calls[c].pc \in {"idle", "returned"}
    /\ IF IsBlank(company)
       THEN Returns(Text(op, "Error: Company name is required.", <<>>))
       ELSE IF IsBlank(role)
       THEN Returns(Text(op, "Error: Role/position is required.", <<>>))
       ELSE IF ~ValidStatus(status1)
       THEN Returns(Text(op, "Error: Invalid status '{status}'. Must be one of: {VALID_STATUSES}",
                         [status |-> status1]))
       ELSE IF LoadRaises(fs[TRACKER_FILE])
       THEN Returns(Raised(op, "UnicodeDecodeError"))
       ELSE /\ Room
            /\ calls' = [calls EXCEPT ![c] =
                            [pc |-> "loaded",
                             company |-> Strip(company),
                             role |-> Strip(role),
                             status |-> status1,
                             notes |-> IF Truthy(notes) THEN Strip(notes) ELSE "",
                             apps |-> LoadList(fs[TRACKER_FILE])]]
            /\ UNCHANGED <<fs, now, ret, codec>>

\* An add that reads the file again when it saves, and appends to what the
\* file holds then.
add_application_open_fresh(c) ==
    LET call == calls[c]
        apps == LoadList(fs[TRACKER_FILE])
        application == [id |-> NextId(apps),
                        company |-> call.company,
                        role |-> call.role,
                        status |-> call.status,
                        notes |-> call.notes,
                        applied_date |-> DateOf(now),
                        last_updated |-> StampOf(now)]
    IN  /\ call.pc = "loaded"
        /\ fs' = [fs EXCEPT ![TRACKER_FILE] = Malformed]
        /\ calls' = [calls EXCEPT ![c] =
                        [pc |-> "writing",
                         loaded |-> call.apps,
                         application |-> application,
                         apps |-> Appended(apps, application)]]
        /\ UNCHANGED <<now, ret, codec>>

\* The record is built and appended, and _save_applications opens the file
\* with mode "w": the file is empty until the document is written.
add_application_open(c) ==
    LET call == calls[c]
        application == [id |-> NextId(call.apps),
                        company |-> call.company,
                        role |-> call.role,
                        status |-> call.status,
                        notes |-> call.notes,
                        applied_date |-> DateOf(now),
                        last_updated |-> StampOf(now)]
    IN  /\ call.pc = "loaded"
        /\ fs' = [fs EXCEPT ![TRACKER_FILE] = Malformed]
        /\ calls' = [calls EXCEPT ![c] =
                        [pc |-> "writing",
                         loaded |-> call.apps,
                         application |-> application,
                         apps |-> Appended(call.apps, application)]]
        /\ UNCHANGED <<now, ret, codec>>

\* json.dump writes the document, the file is closed and the call returns.
add_application_write(c) ==
    LET call == calls[c]
        application == call.application
        result == Text("add_application", "Application #{id} added!",
                       [id |-> application.id, company |-> application.company,
                        role |-> application.role, status |-> application.status,
                        date |-> application.applied_date])
    IN  /\ call.pc = "writing"
        /\ SaveFile(TRACKER_FILE, call.apps)
        /\ ret' = result
        /\ calls' = [calls EXCEPT ![c] =
                        [pc |-> "returned",
                         loaded |-> call.loaded,
                         application |-> application,
                         ret |-> result]]
        /\ UNCHANGED <<now, codec>>

\* The process dies while a call is writing: the file keeps what had
\* reached the disk and every call in flight is gone.
Crash ==
    \E c \in Callers :
        /\ calls[c].pc = "writing"
        /\ \E cut \in CutFiles(calls[c].apps) :
              fs' = [fs EXCEPT ![TRACKER_FILE] = cut]
        /\ calls' = NoCalls
        /\ UNCHANGED <<now, ret, codec>>

StepArgs == {<<"Meta", "SWE", "", "">>, <<" Café ", "Dev", "Offer", "">>, <<"", "SWE", "", "">>}

InitSteps ==
    /\ fs = AllAbsent
    /\ now = 0
    /\ ret = NoRet
    /\ codec = CodecIdle
    /\ calls = NoCalls

NextSteps ==
    \/ Tick
    \/ \E c \in Callers, a \in StepArgs : add_application_load(c, a[1], a[2], a[3], a[4])
    \/ \E c \in Callers : add_application_open(c)
    \/ \E c \in Callers : add_application_write(c)
    \/ Crash

SpecSteps == InitSteps /\ [][NextSteps]_vars


\* Caller c writes its document after caller d, whose call has returned and
\* had loaded the same collection: neither saw the other's record.
LaterWriter(c, d) ==
    /\ c # d
    /\ calls[c].pc = "writing"
    /\ calls'[c].pc = "returned"
    /\ calls[d].pc = "returned"
    /\ calls[d].loaded = calls[c].loaded

CrashedFile ==
    /\ calls = NoCalls
    /\ fs[TRACKER_FILE].kind \in {"malformed", "undecodable"}

\* C19: save truncates and rewrites the file in place, so a crash before
\* the end of the write leaves it malformed; the next load then returns the
\* empty sequence and the records stored before the crash are lost.
C19_CrashLoadsEmpty ==
    [][\A c \in Callers :
          (CrashedFile /\ add_application_load(c, "Meta", "SWE", "", ""))
             => /\ calls'[c].pc = "loaded"
                /\ calls'[c].apps = <<>>]_vars


\* The values of an enumeration.
Values(list) == {list[i] : i \in 1..Len(list)}

\* Every record of the file has its field in the set.
FieldWithin(path, field, allowed) ==
    LET list == LoadList(fs[path])
    IN  \A k \in 1..Len(list) : list[k][field] \in allowed

\* C20: in every reachable state every stored enumerated field holds a
\* value of its fixed set: the 7 application statuses, task priority
\* high/medium/low and task status pending/completed, the 5 goal categories
\* and goal status in_progress/completed, the expense categories, the
\* income sources and the 9 moods.
C20_StoredEnums ==
    /\ Cardinality(Values(VALID_STATUSES)) = 7
    /\ FieldWithin(TRACKER_FILE, "status", Values(VALID_STATUSES))
    /\ Values(TODO_PRIORITIES) = {"high", "medium", "low"}
    /\ FieldWithin(TODOS_FILE, "priority", Values(TODO_PRIORITIES))
    /\ FieldWithin(TODOS_FILE, "status", {"pending", "completed"})
    /\ Cardinality(Values(GOAL_CATEGORIES)) = 5
    /\ FieldWithin(GOALS_FILE, "category", Values(GOAL_CATEGORIES))
    /\ FieldWithin(GOALS_FILE, "status", {"in_progress", "completed"})
    /\ FieldWithin(EXPENSES_FILE, "category", Values(EXPENSE_CATEGORIES))
    /\ FieldWithin(INCOME_FILE, "source", Values(INCOME_TYPES))
    /\ Cardinality(Values(VALID_MOODS)) = 9
    /\ FieldWithin(MOOD_FILE, "mood", Values(VALID_MOODS))

\* An income whose source was given as "lottery" has just been stored, with
\* source "other".
C20_Witness ==
    /\ ret.op = "add_income"
    /\ ret.kind = "text"
    /\ ret.v # <<>>
    /\ Len(LoadList(fs[INCOME_FILE])) = 1
    /\ LoadList(fs[INCOME_FILE])[1].source = "other"


(***************************************************************************)
(* Expenses, incomes and deposits of small amounts, and deposits to two    *)
(* savings goals.                                                          *)
(***************************************************************************)
TinyAmounts == {FloatArg(4), FloatArg(100)}

SmallAmounts == {FloatArg(100), FloatArg(200)}

GoalNames == {"Laptop", "Bike"}

GoalIds == {IntArg(1), IntArg(2), IntArg(3)}

InitAmounts ==
    /\ fs = AllAbsent
    /\ now = 0
    /\ ret = NoRet
    /\ codec = CodecIdle
    /\ calls = NoCalls

\* One goal of each name at most is created.
NextAmounts ==
    /\ \/ \E a \in TinyAmounts : add_expense(a, "food", "")
       \/ \E a \in TinyAmounts : add_income(a, "salary", "")
       \/ \E n \in GoalNames : set_savings_goal(n, IntArg(2), "")
       \/ \E i \in GoalIds, a \in SmallAmounts : add_to_savings(i, a)
    /\ Len(LoadList(fs'[SAVINGS_FILE])) <= Cardinality(GoalNames)

SpecAmounts == InitAmounts /\ [][NextAmounts]_vars

\* Every record of the list has an amount above zero.
AllPositive(list) == \A k \in 1..Len(list) : list[k].amount > 0

\* C21: every stored expense amount, income amount and savings deposit
\* amount is positive: whatever numeric input add_expense, add_income or
\* add_to_savings accepts, the value stored after rounding to two decimals
\* is greater than 0.
C21_StoredAmountsPositive ==
    /\ AllPositive(LoadList(fs[EXPENSES_FILE]))
    /\ AllPositive(LoadList(fs[INCOME_FILE]))
    /\ \A g \in 1..Len(LoadList(fs[SAVINGS_FILE])) :
          AllPositive(LoadList(fs[SAVINGS_FILE])[g].deposits)

\* The amounts of a sequence of deposits added up.
RECURSIVE DepositTotal(_, _)
DepositTotal(deposits, k) ==
    IF k = 0 THEN 0 ELSE deposits[k].amount + DepositTotal(deposits, k - 1)

\* Every goal's saved is the total of its deposits.
SavedIsTotal ==
    LET savings == LoadList(fs[SAVINGS_FILE])
    IN  \A g \in 1..Len(savings) :
           savings[g].saved = DepositTotal(savings[g].deposits, Len(savings[g].deposits))

\* The call that just returned was an add_to_savings that reported success.
SavingsAdded ==
    /\ ret'.op = "add_to_savings"
    /\ ret'.kind = "text"
    /\ ret'.msg = "Added Rs.{amount} to '{name}'!"

MoodsLogged == {<<"good", "">>, <<" Low ", "deadline">>, <<"bogus", "">>, <<"", "">>}

InitMood ==
    /\ fs = AllAbsent
    /\ now = 0
    /\ ret = NoRet
    /\ codec = CodecIdle
    /\ calls = NoCalls

NextMood ==
    \/ NextDay
    \/ \E a \in MoodsLogged : log_mood(a[1], a[2])

SpecMood == InitMood /\ [][NextMood]_vars

\* The number of consecutive days, ending with this one and walking
\* backward, on which the list has an entry.
RECURSIVE DaysInARow(_, _)
DaysInARow(entries, day) ==
    IF day >= 0 /\ \E k \in 1..Len(entries) : entries[k].date = day
    THEN 1 + DaysInARow(entries, day - 1)
    ELSE 0

\* C23: the mood tracking streak that log_mood reports is the number of
\* consecutive calendar days ending today on which a mood entry exists,
\* found by walking backward from today to the first day without an entry.
C23_MoodStreak ==
    [][(/\ ret'.op = "log_mood"
        /\ ret'.msg = "Mood logged: {mood} ({timestamp})"
        /\ fs'[MOOD_FILE] # fs[MOOD_FILE])
          => ret'.v.streak = DaysInARow(LoadList(fs'[MOOD_FILE]), DateOf(now))]_vars


(***************************************************************************)
(* Tasks and weekly goals added and completed while the clock runs.        *)
(***************************************************************************)
PlannerTasks == {<<"cv", "high", "">>, <<"apply", "", "friday">>}

PlannerIds == {IntArg(1), IntArg(2), FloatArg(1500)}

PlannerGoals == {<<"apply", "career">>, <<"rest", "">>}

InitPlanner ==
    /\ fs = AllAbsent
    /\ now = 0
    /\ ret = NoRet
    /\ codec = CodecIdle
    /\ calls = NoCalls

NextPlanner ==
    \/ Tick
    \/ \E a \in PlannerTasks : add_task(a[1], a[2], a[3])
    \/ \E a \in PlannerIds : complete_task(a)
    \/ \E a \in PlannerGoals : set_weekly_goal(a[1], a[2])
    \/ \E a \in PlannerIds : complete_goal(a)

SpecPlanner == InitPlanner /\ [][NextPlanner]_vars

\* The task the id argument selects is stored with status completed.
AlreadyCompleted(task_id) ==
    LET todos == LoadList(fs[TODOS_FILE])
    IN  \E k \in 1..Len(todos) :
           todos[k].id = IntOf(task_id) /\ todos[k].status = "completed"

\* C24: complete_task on a task that is already completed returns an
\* "already completed" message and leaves the task's status, its
\* completed_at and the whole todo collection unchanged.
C24_CompleteTaskIdempotent ==
    [][\A a \in PlannerIds :
          (ret'.op = "complete_task" /\ AlreadyCompleted(a) /\ complete_task(a))
             => /\ ret'.msg = "Task #{task_id} is already completed!"
                /\ fs' = fs]_vars

\* complete_task has just answered "already completed" about a task that
\* was completed a minute or more ago.
C24_Witness ==
    /\ ret.op = "complete_task"
    /\ ret.msg = "Task #{task_id} is already completed!"
    /\ \E k \in 1..Len(LoadList(fs[TODOS_FILE])) :
          /\ LoadList(fs[TODOS_FILE])[k].id = ret.v.id
          /\ LoadList(fs[TODOS_FILE])[k].completed_at < StampOf(now)


\* Every record completed before the step is still there and completed.
StaysCompleted(path) ==
    LET before == LoadList(fs[path])
        after == LoadList(fs'[path])
    IN  /\ Len(after) >= Len(before)
        /\ \A k \in 1..Len(before) :
              /\ after[k].id = before[k].id
              /\ before[k].status = "completed" => after[k].status = "completed"

\* A task has a completion stamp exactly when its status is completed.
StampedWhenCompleted ==
    LET todos == LoadList(fs[TODOS_FILE])
    IN  \A k \in 1..Len(todos) :
           todos[k].completed_at # NoStamp <=> todos[k].status = "completed"

\* C29: status only moves forward: a completed task never becomes pending
\* again and a completed goal never becomes in_progress again, and in every
\* reachable state a task's completed_at is non-empty exactly when its
\* status is completed.
C29_StatusForward ==
    [][/\ StaysCompleted(TODOS_FILE)
       /\ StaysCompleted(GOALS_FILE)
       /\ StampedWhenCompleted']_vars

\* A completed task is stored, and complete_goal has just completed a goal
\* after the clock had moved on.
C29_Witness ==
    /\ ret.op = "complete_goal"
    /\ ret.kind = "text"
    /\ \E k \in 1..Len(LoadList(fs[TODOS_FILE])) :
          LoadList(fs[TODOS_FILE])[k].status = "completed"
    /\ \E k \in 1..Len(LoadList(fs[GOALS_FILE])) :
          /\ LoadList(fs[GOALS_FILE])[k].status = "completed"
          /\ LoadList(fs[GOALS_FILE])[k].completed_at > 0


(***************************************************************************)
(* career_tools.py: get_dsa_roadmap, a function of its argument alone.     *)
(* Each caller holds the argument of a call it is about to make.           *)
(***************************************************************************)
DSA_TOPICS ==
    <<[topic |-> "Arrays & Strings", problems |-> 15],
      [topic |-> "Hashing & Two Pointers", problems |-> 10],
      [topic |-> "Linked Lists", problems |-> 10],
      [topic |-> "Stacks & Queues", problems |-> 10],
      [topic |-> "Recursion & Backtracking", problems |-> 12],
      [topic |-> "Binary Trees & BST", problems |-> 15],
      [topic |-> "Graphs (BFS/DFS)", problems |-> 15],
      [topic |-> "Dynamic Programming (1D)", problems |-> 15],
      [topic |-> "Dynamic Programming (2D)", problems |-> 10],
      [topic |-> "Greedy Algorithms", problems |-> 10],
      [topic |-> "Heaps & Priority Queues", problems |-> 8],
      [topic |-> "Tries & Segment Trees", problems |-> 8],
      [topic |-> "Sliding Window & Intervals", problems |-> 10],
      [topic |-> "Bit Manipulation", problems |-> 6],
      [topic |-> "Mixed Practice & Mock Interviews", problems |-> 20]>>

\* float("inf"), float("-inf") and float("nan"): floats that are no number
\* of thousandths
InfArg == [type |-> "inf", val |-> 0]
MinusInfArg == [type |-> "-inf", val |-> 0]
NanArg == [type |-> "nan", val |-> 0]

\* isinstance(x, (int, float)), the floats above included
IsIntOrFloat(x) == IsNumber(x) \/ x.type \in {"inf", "-inf", "nan"}

\* int(x) of a finite number: truncation toward zero
Trunc(x) == IF x.val >= 0 THEN x.val \div Milli ELSE 0 - ((0 - x.val) \div Milli)

\* sum(t["problems"] for t in week_topics)
RECURSIVE SumProblems(_, _)
SumProblems(week_topics, k) ==
    IF k = 0 THEN 0 ELSE week_topics[k].problems + SumProblems(week_topics, k - 1)

\* The plan lines of the weeks week_num..weeks; topics[start:end] cuts the
\* slice at the end of the list, and the loop stops at the first empty one.
RECURSIVE PlanLines(_, _, _)
PlanLines(week_num, weeks, topics_per_week) ==
    LET total_topics == Len(DSA_TOPICS)
        start == (week_num - 1) * topics_per_week
        end == IF week_num < weeks THEN start + topics_per_week ELSE total_topics
        week_topics == SubSeq(DSA_TOPICS, Min(start, total_topics) + 1, Min(end, total_topics))
    IN  IF week_num > weeks \/ week_topics = <<>>
        THEN <<>>
        ELSE <<[week |-> week_num,
                topics |-> [k \in 1..Len(week_topics) |-> week_topics[k].topic],
                problems |-> SumProblems(week_topics, Len(week_topics))]>>
             \o PlanLines(week_num + 1, weeks, topics_per_week)

\* What get_dsa_roadmap(weeks) returns.
DsaRoadmap(weeks) ==
    LET op == "get_dsa_roadmap"
        weeks1 == Max(1, Min(Trunc(weeks), 16))
        topics_per_week == Max(1, Len(DSA_TOPICS) \div weeks1)
    IN  IF ~IsIntOrFloat(weeks)
        THEN Text(op, "Error: 'weeks' must be a number between 1 and 16.", <<>>)
        ELSE IF weeks.type \in {"inf", "-inf"}
        THEN Raised(op, "OverflowError")
        ELSE IF weeks.type = "nan"
        THEN Raised(op, "ValueError")
        ELSE Text(op, "Week {week_num}: {topic_names} (~{total_problems} problems)",
                  [weeks |-> weeks1, plan |-> PlanLines(1, weeks1, topics_per_week)])

\* Caller c makes its call.
get_dsa_roadmap(c) ==
    /\ calls[c].pc = "called"
    /\ ret' = DsaRoadmap(calls[c].weeks)
    /\ calls' = [calls EXCEPT ![c] = Idle]
    /\ UNCHANGED <<fs, now, codec>>

WeeksArgs ==
    {IntArg(n) : n \in (0 - 2)..18}
        \cup {FloatArg(2700), FloatArg(0 - 500), FloatArg(15999), FloatArg(16001),
              IntArg(100), StrArg, InfArg, MinusInfArg, NanArg}

InitRoadmap ==
    /\ fs = AllAbsent
    /\ now = 0
    /\ ret = NoRet
    /\ codec = CodecIdle
    /\ calls \in [Callers -> {[pc |-> "called", weeks |-> w] : w \in WeeksArgs}]

NextRoadmap == \E c \in Callers : get_dsa_roadmap(c)

SpecRoadmap == InitRoadmap /\ [][NextRoadmap]_vars

\* The topics of the plan lines k.. in the order of the lines.
RECURSIVE TopicsOf(_, _)
TopicsOf(plan, k) ==
    IF k > Len(plan) THEN <<>> ELSE plan[k].topics \o TopicsOf(plan, k + 1)

\* C25: get_dsa_roadmap clamps any numeric weeks into 1..16 and, for the
\* clamped value w, emits week lines numbered 1..min(w, 15), none of them
\* empty, in which each of the 15 topics appears in exactly one week and in
\* the original order.
C25_RoadmapCoversTopics ==
    [][\A c \in Callers :
          (calls[c].pc = "called" /\ calls'[c].pc = "idle" /\ IsIntOrFloat(calls[c].weeks))
             => /\ ret'.kind = "text"
                /\ ret'.v.weeks \in 1..16
                /\ Len(ret'.v.plan) = Min(ret'.v.weeks, 15)
                /\ \A n \in 1..Len(ret'.v.plan) :
                      ret'.v.plan[n].week = n /\ ret'.v.plan[n].topics # <<>>
                /\ TopicsOf(ret'.v.plan, 1)
                      = [k \in 1..Len(DSA_TOPICS) |-> DSA_TOPICS[k].topic]]_vars


\* C26: list_applications called with an empty filter, or a filter made
\* only of whitespace, applies no filter and lists all the stored
\* applications.
C26_BlankFilterListsAll ==
    [][\A f \in {"", " "} :
          (/\ ret'.op = "list_applications"
           /\ Len(LoadList(fs[TRACKER_FILE])) > 0
           /\ list_applications(f))
             => /\ ret'.msg = "Job Applications ({total} total):"
                /\ ret'.v.total = Len(LoadList(fs[TRACKER_FILE]))]_vars


(***************************************************************************)
(* The tools that only read: what each returns from the files it loads.    *)
(* The texts are kept to their headline and the numbers they are built     *)
(* from.                                                                   *)
(***************************************************************************)

\* A list_tasks that writes back what it loaded.
list_tasks_saving(show_completed) ==
    /\ SaveFile(TODOS_FILE, LoadList(fs[TODOS_FILE]))
    /\ ret' = Text("list_tasks", "Your Tasks ({total}):", <<>>)
    /\ UNCHANGED <<now, codec, calls>>

list_tasks(show_completed) ==
    LET op == "list_tasks"
        all == LoadList(fs[TODOS_FILE])
        todos == IF show_completed THEN all
                 ELSE SelectSeq(all, LAMBDA t : t.status = "pending")
    IN
    IF LoadRaises(fs[TODOS_FILE])
    THEN Returns(Raised(op, "UnicodeDecodeError"))
    ELSE IF Len(all) = 0
    THEN Returns(Text(op, "No tasks yet! Use add_task() to get started.", <<>>))
    ELSE IF Len(todos) = 0
    THEN Returns(Text(op, "All tasks completed! You're crushing it! Add more with add_task().",
                      <<>>))
    ELSE Returns(Text(op, "Your Tasks ({total}):",
                      [total |-> Len(todos),
                       ids |-> [k \in 1..Len(todos) |-> todos[k].id],
                       pending |-> CountStatus(todos, "pending"),
                       completed |-> CountStatus(todos, "completed")]))

\* t["created"][:10], the date of a stamp
DateOfStamp(stamp) == stamp \div MinutesPerDay

weekly_progress_report ==
    LET op == "weekly_progress_report"
        week_start == WeekStartOf(now)
        todos == LoadList(fs[TODOS_FILE])
        week_todos == SelectSeq(todos, LAMBDA t : DateOfStamp(t.created) >= week_start)
        habits == LoadList(fs[HABITS_FILE])
        goals == LoadList(fs[GOALS_FILE])
        week_goals == SelectSeq(goals, LAMBDA g : g.week_start = week_start)
    IN
    IF \E path \in {TODOS_FILE, HABITS_FILE, GOALS_FILE} : LoadRaises(fs[path])
    THEN Returns(Raised(op, "UnicodeDecodeError"))
    ELSE Returns(Text(op, "**Weekly Progress Report**",
                      [week_start |-> week_start,
                       generated |-> StampOf(now),
                       tasks |-> Len(week_todos),
                       completed_tasks |-> CountStatus(week_todos, "completed"),
                       habits |-> Len(habits),
                       goals |-> Len(week_goals),
                       completed_goals |-> CountStatus(week_goals, "completed")]))

view_expenses(period) ==
    LET op == "view_expenses"
        expenses == LoadList(fs[EXPENSES_FILE])
        period1 == IF Truthy(period) THEN Lower(Strip(period)) ELSE "month"
        today == DateOf(now)
        filtered ==
            CASE period1 = "today" -> OnDate(expenses, today)
              [] period1 = "week" ->
                    SelectSeq(expenses, LAMBDA e : e.date >= WeekStartOf(now))
              [] period1 = "month" -> InMonth(expenses, MonthOf(today))
              [] OTHER -> expenses
        period_label ==
            CASE period1 = "today" -> "Today"
              [] period1 = "week" -> "This Week"
              [] period1 = "month" -> "%B %Y"
              [] OTHER -> "All Time"
        total == SumAmounts(filtered)
        budget == LoadDict(fs[BUDGET_FILE])
        with_budget == budget # <<>> /\ period1 = "month" /\ budget.monthly_total > 0
    IN
    IF LoadRaises(fs[EXPENSES_FILE])
    THEN Returns(Raised(op, "UnicodeDecodeError"))
    ELSE IF Len(expenses) = 0
    THEN Returns(Text(op, "No expenses logged yet! Use add_expense() to start tracking.",
                      <<>>))
    ELSE IF Len(filtered) = 0
    THEN Returns(Text(op, "No expenses found for {period_label}.",
                      [period_label |-> period_label]))
    \* pct = round((amt / total) * 100) with a total of 0.0
    ELSE IF total = 0
    THEN Returns(Raised(op, "ZeroDivisionError"))
    ELSE IF LoadRaises(fs[BUDGET_FILE])
    THEN Returns(Raised(op, "UnicodeDecodeError"))
    ELSE Returns(Text(op, "**Expenses - {period_label}**",
                      [period_label |-> period_label,
                       total |-> total,
                       transactions |-> Len(filtered),
                       budget |-> IF with_budget THEN budget.monthly_total ELSE 0,
                       remaining |-> IF with_budget THEN budget.monthly_total - total ELSE 0]))

\* sum(g[field] for g in savings)
RECURSIVE SumField(_, _, _)
SumField(list, field, k) ==
    IF k = 0 THEN 0 ELSE list[k][field] + SumField(list, field, k - 1)

view_savings ==
    LET op == "view_savings"
        savings == LoadList(fs[SAVINGS_FILE])
    IN
    IF LoadRaises(fs[SAVINGS_FILE])
    THEN Returns(Raised(op, "UnicodeDecodeError"))
    ELSE IF Len(savings) = 0
    THEN Returns(Text(op, "No savings goals yet! Use set_savings_goal() to create one.",
                      <<>>))
    ELSE Returns(Text(op, "**Your Savings Goals ({count}):**",
                      [count |-> Len(savings),
                       pcts |-> [k \in 1..Len(savings) |->
                                    IF savings[k].target > 0
                                    THEN Min(100, Percent(savings[k].saved, savings[k].target))
                                    ELSE 0],
                       total_saved |-> SumField(savings, "saved", Len(savings)),
                       total_target |-> SumField(savings, "target", Len(savings))]))

financial_summary(period) ==
    LET op == "financial_summary"
        month == MonthOf(DateOf(now))
        expenses == LoadList(fs[EXPENSES_FILE])
        income == LoadList(fs[INCOME_FILE])
        savings == LoadList(fs[SAVINGS_FILE])
        filtered_exp == IF period = "month" THEN InMonth(expenses, month) ELSE expenses
        filtered_inc == IF period = "month" THEN InMonth(income, month) ELSE income
        total_expense == SumAmounts(filtered_exp)
        total_income == SumAmounts(filtered_inc)
    IN
    IF \E path \in {EXPENSES_FILE, INCOME_FILE, SAVINGS_FILE, BUDGET_FILE} :
          LoadRaises(fs[path])
    THEN Returns(Raised(op, "UnicodeDecodeError"))
    ELSE Returns(Text(op, "**Financial Summary - {period_label}**",
                      [period_label |-> IF period = "month" THEN "%B %Y" ELSE "All Time",
                       total_income |-> total_income,
                       total_expense |-> total_expense,
                       surplus |-> total_income >= total_expense,
                       total_saved |-> SumField(savings, "saved", Len(savings))]))

\* sum(mood_counts.get(m, 0) for m in moods)
CountMoods(entries, moods) == Len(SelectSeq(entries, LAMBDA e : e.mood \in moods))

get_mood_history(days) ==
    LET op == "get_mood_history"
        entries == LoadList(fs[MOOD_FILE])
        days1 == Max(1, Min(Trunc(days), 90))
        cutoff == DateOf(now) - days1
        recent == SelectSeq(entries, LAMBDA e : e.date >= cutoff)
    IN
    IF LoadRaises(fs[MOOD_FILE])
    THEN Returns(Raised(op, "UnicodeDecodeError"))
    ELSE IF Len(entries) = 0
    THEN Returns(Text(op, "No mood entries yet. Use log_mood() to start tracking how you feel!",
                      <<>>))
    \* int(days) of a text that is no number
    ELSE IF ~IsNumber(days)
    THEN Returns(Raised(op, "ValueError"))
    ELSE IF Len(recent) = 0
    THEN Returns(Text(op, "No mood entries in the last {days} days.", [days |-> days1]))
    ELSE Returns(Text(op, "Mood History (last {days} days):",
                      [days |-> days1,
                       entries |-> Len(recent),
                       positive |-> CountMoods(recent, {"great", "good"}),
                       negative |-> CountMoods(recent, {"sad", "angry", "stressed", "anxious"})]))

weekly_checkin ==
    LET op == "weekly_checkin"
        cutoff == DateOf(now) - DaysPerWeek
        moods == LoadList(fs[MOOD_FILE])
        recent_moods == SelectSeq(moods, LAMBDA m : m.date >= cutoff)
        journals == LoadList(fs[JOURNAL_FILE])
        recent_journals == SelectSeq(journals, LAMBDA j : j.date >= cutoff)
    IN
    IF LoadRaises(fs[MOOD_FILE]) \/ LoadRaises(fs[JOURNAL_FILE])
    THEN Returns(Raised(op, "UnicodeDecodeError"))
    ELSE Returns(Text(op, "**Weekly Wellness Check-In**",
                      [cutoff |-> cutoff,
                       moods |-> Len(recent_moods),
                       positive |-> CountMoods(recent_moods, {"great", "good"}),
                       negative |-> CountMoods(recent_moods,
                                               {"sad", "angry", "stressed", "anxious"}),
                       journals |-> Len(recent_journals),
                       total_words |-> SumWords(recent_journals, 1)]))


(***************************************************************************)
(* The tools that write fill the files over several days; the tools that   *)
(* only read are called in between, on files present, absent or damaged.   *)
(***************************************************************************)
ReadOnlyTools ==
    {"list_applications", "list_tasks", "view_habits", "weekly_progress_report",
     "view_expenses", "view_savings", "financial_summary", "get_mood_history",
     "weekly_checkin"}

ViewedExpenses == {<<FloatArg(1004), " Food ", "">>, <<FloatArg(4), "", "">>}
ViewStatusFilters == {"", "offer"}
ViewPeriods == {"", " Week ", "today", "all"}
SummaryPeriods == {"month", "all"}
MoodHistoryDays == {IntArg(1), FloatArg(2500), IntArg(0), StrArg}

InitViews ==
    /\ fs \in {AllAbsent} \cup DamagedOne({EXPENSES_FILE, MOOD_FILE})
    /\ now = 0
    /\ ret = NoRet
    /\ codec = CodecIdle
    /\ calls = NoCalls

Writes ==
    \/ \E a \in AddApplicationFew : add_application(a[1], a[2], a[3], a[4])
    \/ \E a \in AddTaskArgs : add_task(a[1], a[2], a[3])
    \/ complete_task(IntArg(1))
    \/ track_habit("run", TRUE)
    \/ \E a \in SetWeeklyGoalArgs : set_weekly_goal(a[1], a[2])
    \/ \E a \in ViewedExpenses : add_expense(a[1], a[2], a[3])
    \/ \E a \in AddIncomeArgs : add_income(a[1], a[2], a[3])
    \/ set_budget(IntArg(1), "")
    \/ \E a \in SetSavingsGoalArgs : set_savings_goal(a[1], a[2], a[3])
    \/ \E a \in LogMoodArgs : log_mood(a[1], a[2])
    \/ \E a \in JournalEntryArgs : journal_entry(a[1], a[2])

Reads ==
    \/ \E a \in ViewStatusFilters : list_applications(a)
    \/ \E a \in BOOLEAN : list_tasks(a)
    \/ view_habits
    \/ weekly_progress_report
    \/ \E a \in ViewPeriods : view_expenses(a)
    \/ view_savings
    \/ \E a \in SummaryPeriods : financial_summary(a)
    \/ \E a \in MoodHistoryDays : get_mood_history(a)
    \/ weekly_checkin

\* Everything stored: the records, the habits and the budget.
Viewed ==
    Stored + Len(LoadList(fs[HABITS_FILE]))
    + (IF LoadDict(fs[BUDGET_FILE]) = <<>> THEN 0 ELSE 1)

NextViews ==
    \/ now = 0 /\ NextDay
    \/ Writes /\ Viewed' <= MaxStoredInputs
    \/ Reads

SpecViews == InitViews /\ [][NextViews]_vars

\* C27: a call of a tool that only reads leaves every file as it was: no
\* collection changes, no file is written, and a file that was absent stays
\* absent, whatever the argument and whatever is stored.
C27_ReadOnlyTools == [][ret'.op \in ReadOnlyTools => fs' = fs]_vars

\* The weekly check-in has reported on stored moods with no journal file.
C27_Witness ==
    /\ ret.op = "weekly_checkin"
    /\ ret.kind = "text"
    /\ ret.v.moods > 0
    /\ fs[JOURNAL_FILE] = Absent
    /\ fs[EXPENSES_FILE] = Malformed


\* The fields of an application that an update never touches.
KeptFields == {"id", "company", "role", "applied_date"}

\* C28: a successful update_application of record i keeps the number of
\* records, leaves every other record as it was, leaves record i's id,
\* company, role and applied_date as they were, and changes the notes only
\* when the notes argument is not empty.
C28_UpdateFrame ==
    [][\A a \in UpdateApplicationArgs :
          (/\ ret'.op = "update_application"
           /\ ret'.msg = "Application #{id} updated!"
           /\ update_application(a[1], a[2], a[3]))
          => LET old == LoadList(fs[TRACKER_FILE])
                 new == LoadList(fs'[TRACKER_FILE])
             IN  /\ Len(new) = Len(old)
                 /\ \A k \in 1..Len(old) :
                       /\ old[k].id # ret'.v.id => new[k] = old[k]
                       /\ \A f \in KeptFields : new[k][f] = old[k][f]
                       /\ ~Truthy(a[3]) => new[k].notes = old[k].notes]_vars

\* The second of two applications has been updated, with new notes.
C28_Witness ==
    LET apps == LoadList(fs[TRACKER_FILE])
    IN  /\ ret.op = "update_application"
        /\ ret.msg = "Application #{id} updated!"
        /\ ret.v.id = 2
        /\ Len(apps) = 2
        /\ apps[1].notes = "ref"
        /\ apps[2].notes = "call"
        /\ apps[2].status = "applied"


(***************************************************************************)
(* streamlit_app.py: the chat frontend and the agent server it talks to.   *)
(* Here `calls` holds the frontend alone: where send_message stands (pc),  *)
(* the message, st.session_state.session_id, and the session_id of every   *)
(* post made to the run endpoint.                                          *)
(***************************************************************************)
NoSession == "None"
SessionIds == {"s1", "s2"}
Messages == {"hi", "plan my week", "track habit run"}

\* What the server may do with the request that creates a session: answer
\* 200 with a session, answer another status, be unreachable (refused, or
\* no connection within the timeout), or accept the connection and not
\* answer within the timeout.
CreateOutcomes ==
    {[kind |-> "ok", id |-> s] : s \in SessionIds}
    \cup {[kind |-> k, id |-> NoSession]
          : k \in {"status", "ConnectionError", "ReadTimeout"}}

\* The lines of an event stream: a text part, two errors, an event with no
\* content, data that is no JSON, and a line that is no data.
TextLine(text) == [kind |-> "text", text |-> text]
RateLimitLine == [kind |-> "error", text |-> "RateLimitError: quota"]
ErrorLine == [kind |-> "error", text |-> "boom"]
EventLine == [kind |-> "event", text |-> ""]
BadJsonLine == [kind |-> "badjson", text |-> ""]
CommentLine == [kind |-> "comment", text |-> ""]

Streams ==
    {<<>>, <<TextLine("Hello")>>, <<TextLine("Hel"), TextLine("Hello")>>,
     <<RateLimitLine>>, <<TextLine("Hel"), RateLimitLine>>, <<ErrorLine>>,
     <<TextLine("Hello"), ErrorLine>>, <<EventLine, BadJsonLine, CommentLine>>,
     <<BadJsonLine, TextLine("Hello")>>}

\* What the server may do with the post to the run endpoint.
PostOutcomes ==
    {[kind |-> "stream", lines |-> s] : s \in Streams}
    \cup {[kind |-> k, lines |-> <<>>] : k \in {"ConnectionError", "Timeout"}}

ChatIdle == [pc |-> "idle", message |-> "", session_id |-> NoSession, posts |-> {}]

\* for line in resp.iter_lines(...): the text send_message returns
RECURSIVE Response(_, _, _)
Response(lines, k, full_response) ==
    IF k > Len(lines)
    THEN IF full_response # ""
         THEN Text("send_message", "{full_response}", full_response)
         ELSE Text("send_message", "No response received. Try again.", "")
    ELSE IF lines[k].kind = "error"
    THEN IF lines[k].text = RateLimitLine.text
         THEN IF full_response # ""
              THEN Text("send_message",
                        "{full_response}\n\n*(Rate limit hit - wait 30s and try again)*",
                        full_response)
              ELSE Text("send_message",
                        "Rate limit reached. Please wait 30 seconds and try again.", "")
         ELSE Text("send_message", "Error: {error_msg}", lines[k].text)
    ELSE IF lines[k].kind = "text"
    THEN Response(lines, k + 1, lines[k].text)
    ELSE Response(lines, k + 1, full_response)

\* send_message is called: with no session it creates one first.
send_message(message) ==
    /\ calls.pc = "idle"
    /\ calls' = [calls EXCEPT !.message = message,
                              !.pc = IF calls.session_id = NoSession
                                     THEN "create_session" ELSE "post"]
    /\ ret' = NoRet
    /\ UNCHANGED <<fs, now, codec>>

\* create_session, called by send_message outside its try block
create_session(outcome) ==
    /\ calls.pc = "create_session"
    /\ CASE outcome.kind = "ok" ->
              /\ calls' = [calls EXCEPT !.session_id = outcome.id, !.pc = "post"]
              /\ UNCHANGED ret
         [] outcome.kind \in {"status", "ConnectionError"} ->
              /\ calls' = [calls EXCEPT !.pc = "idle"]
              /\ ret' = Text("send_message",
                             "Could not connect to the ADK server. Make sure it's running with adk web .",
                             "")
         \* requests.ReadTimeout is a Timeout and no ConnectionError
         [] outcome.kind = "ReadTimeout" ->
              /\ calls' = [calls EXCEPT !.pc = "idle"]
              /\ ret' = Raised("send_message", "ReadTimeout")
    /\ UNCHANGED <<fs, now, codec>>

\* requests.post to /run_sse and the reading of its answer
run_sse(outcome) ==
    /\ calls.pc = "post"
    /\ calls' = [calls EXCEPT !.pc = "idle", !.posts = @ \cup {calls.session_id}]
    /\ ret' = CASE outcome.kind = "stream" -> Response(outcome.lines, 1, "")
                [] outcome.kind = "ConnectionError" ->
                      Text("send_message",
                           "Cannot connect to ADK server. Run adk web . in your project directory first.",
                           "")
                [] outcome.kind = "Timeout" ->
                      Text("send_message",
                           "Request timed out. The server might be busy. Try again.", "")
    /\ UNCHANGED <<fs, now, codec>>

\* The New Conversation button.
new_conversation ==
    /\ calls.pc = "idle"
    /\ calls.session_id # NoSession
    /\ calls' = [calls EXCEPT !.session_id = NoSession]
    /\ ret' = NoRet
    /\ UNCHANGED <<fs, now, codec>>

InitChat ==
    /\ fs = AllAbsent
    /\ now = 0
    /\ ret = NoRet
    /\ codec = CodecIdle
    /\ calls = ChatIdle

NextChat ==
    \/ \E m \in Messages : send_message(m)
    \/ \E o \in CreateOutcomes : create_session(o)
    \/ \E o \in PostOutcomes : run_sse(o)
    \/ new_conversation

SpecChat == InitChat /\ [][NextChat]_vars

\* C30: whatever the server does, send_message returns a text and raises
\* nothing, and no post to the run endpoint carries an unset session_id.
C30_SendMessageReturnsText ==
    /\ ret.op = "send_message" => ret.kind = "text"
    /\ NoSession \notin calls.posts

=============================================================================
